---- MODULE Spec2Model ----
(***************************************************************************)
(* Model of the ESP WiFi Manager (tidklaas/esp32_wifi_manager).            *)
(*                                                                         *)
(* The state is the singleton cfg_state, the wifi_events event group, the  *)
(* config_timer, the NVS namespace "esp_wmngr", the radio driver's own     *)
(* configuration (the part of it the manager reads back), and the          *)
(* reference counted scan data sets.  handle_wifi() is split where another *)
(* context can observe it: after the write of wmngr_state_connected and    *)
(* before save_config(), at the release of the lock, and at the re-arming  *)
(* of the timer that follows the release.  Calls into the radio driver,    *)
(* the NVS and the timer service may fail; which ones do is chosen by the  *)
(* environment.                                                            *)
(***************************************************************************)
EXTENDS Integers, Sequences, FiniteSets, TLC

VARIABLES
    state,          \* cfg_state.state
    saved,          \* cfg_state.saved
    current,        \* cfg_state.current
    new,            \* cfg_state.new
    elapsed,        \* xTaskGetTickCount() - cfg_state.cfg_timestamp
    scan_ref,       \* cfg_state.scan_ref (0: NULL)
    lock,           \* cfg_state.lock: "free", "sm" (handle_wifi), "api"
    wifi_events,    \* the event group: the set of bits that are set
    timer_armed,    \* config_timer is active and will expire
    task,           \* CONFIG_WMNGR_TASK (fixed by the build)
    sm_pc,          \* where handle_wifi() is: "wait", "clear" (the task, woken),
                    \* "save", "exit", "rearm"
    sm_events,      \* handle_wifi(): local events (sampled on entry)
    delay,          \* handle_wifi(): local delay
    radio,          \* the driver's mode, AP/STA config, DHCP client, DNS
    nvs,            \* the namespace "esp_wmngr"
    ref_cnt,        \* scan_data_ref.ref_cnt.count, per data set
    freed,          \* how often free_scan_data() ran, per data set
    n_alloc,        \* data sets allocated so far
    held,           \* per reader: the data set got and not yet put (0: none)
    call,           \* what the call made in this step returned
    origin,         \* history: what started the transition in progress
    req_nvs,        \* history: the namespace when that transition started
    unseen,         \* history: event_handler() changed the event group and
                    \* no run of handle_wifi() has read it since
    fresh,          \* history: a WIFI_EVENT_STA_CONNECTED has come, and no
                    \* WIFI_EVENT_STA_DISCONNECTED, since handle_wifi() last
                    \* ran its update case
    faults,         \* history: driver, NVS and timer calls that failed so far
    conn,           \* set_connect(): the config it got, until it sets it
    requests        \* history: public calls that found a stable state

cfg_vars == <<state, saved, current, new, elapsed, scan_ref>>
sm_vars == <<sm_pc, sm_events, delay>>
scan_vars == <<ref_cnt, freed, n_alloc, held>>
hist_vars == <<origin, req_nvs, unseen, fresh>>
vars == <<state, saved, current, new, elapsed, scan_ref, lock,
          wifi_events, timer_armed, task, sm_pc, sm_events, delay, radio, nvs, ref_cnt, freed, n_alloc, held, call, origin, req_nvs,
          unseen, fresh, faults, conn, requests>>

(***************************************************************************)
(* Bounds of the model.                                                    *)
(***************************************************************************)
\* TickType_t is modelled TickBits wide (the arithmetic wraps at 2^TickBits).
TickBits == 3
\* CFG_TIMEOUT in ticks, scaled down to fit the modelled tick width.
CFG_TIMEOUT == 1
\* Scan data sets that can be allocated; after that calloc() returns NULL.
MaxSnap == 2
\* Concurrent users of esp_wmngr_get_scan()/esp_wmngr_put_scan().
MaxReaders == 2
\* Calls into the driver, the NVS and the timer service that fail in one run.
MaxFaults == 1
\* Public calls of one run that find the lock free and the state stable.
MaxRequests == 1

TickMod == 2 ^ TickBits
Readers == 1 .. MaxReaders
SnapIds == 1 .. MaxSnap

(***************************************************************************)
(* enum wmngr_state: the order is the enum's, "state > wmngr_state_idle"   *)
(* is how the code tells a transitional state from a stable one.           *)
(***************************************************************************)
StateOrd(s) ==
    CASE s = "failed" -> 0
      [] s = "connected" -> 1
      [] s = "idle" -> 2
      [] s = "update" -> 3
      [] s = "wps_start" -> 4
      [] s = "wps_active" -> 5
      [] s = "connecting" -> 6
      [] s = "disconnecting" -> 7
      [] s = "fallback" -> 8

States == {"failed", "connected", "idle", "update", "wps_start",
           "wps_active", "connecting", "disconnecting", "fallback"}

\* A faulty variant of Busy: off by one, wmngr_state_update passes as stable.
BusyOffByOne(s) == StateOrd(s) > StateOrd("update")

\* cfg_state.state > wmngr_state_idle
Busy(s) == StateOrd(s) > StateOrd("idle")

(***************************************************************************)
(* struct wifi_cfg.  The esp-idf structs are abstracted to what the        *)
(* manager does with them: it copies and compares them whole, and writes   *)
(* ap.ap.max_connection.                                                   *)
(***************************************************************************)
MAX_AP_CLIENTS == 3

ZeroAp == [ssid |-> "", max_connection |-> 0]

\* memset(cfg, 0x0, sizeof(*cfg)); WIFI_MODE_NULL is 0.
ZeroCfg ==
    [is_default |-> FALSE, mode |-> "NULL", ap |-> ZeroAp, ap_ip_info |-> "",
     sta |-> "", sta_static |-> FALSE, sta_ip_info |-> "",
     sta_dns_info |-> "", sta_connect |-> FALSE]

set_defaults ==
    [ZeroCfg EXCEPT !.is_default = TRUE,
                    !.mode = "APSTA",
                    !.ap_ip_info = "192.168.4.1",
                    !.ap = [ssid |-> "ESP WiFi Manager", max_connection |-> 0]]

ApBearing(m) == m = "APSTA" \/ m = "AP"
StaBearing(m) == m = "APSTA" \/ m = "STA"

(***************************************************************************)
(* The event group bits.                                                   *)
(***************************************************************************)
BITS_WPS == {"WPS_SUCCESS", "WPS_FAILED"}

sta_connected(events) == "STA_CONNECTED" \in events

(***************************************************************************)
(* time_after(a, b): ((long)((b) - (a)) < 0) on TickBits wide unsigned     *)
(* operands.                                                               *)
(***************************************************************************)
ToSigned(x) == IF x >= TickMod \div 2 THEN x - TickMod ELSE x

\* A faulty variant of time_after(): the operands are compared as they are.
time_afterPlain(a, b) == b < a

time_after(a, b) == ToSigned((b - a) % TickMod) < 0

(***************************************************************************)
(* The tick counter and cfg_state.cfg_timestamp are kept as their          *)
(* difference in TickType_t, elapsed: it is all the code reads of them.    *)
(* time_after(now, cfg_state.cfg_timestamp + CFG_TIMEOUT), in terms of it: *)
(***************************************************************************)
TimedOut(e) == time_after(e, CFG_TIMEOUT)

(***************************************************************************)
(* The radio driver and the IP adapter, as far as the manager reads back   *)
(* what it wrote: the mode, the two interface configs, whether the DHCP    *)
(* client is stopped, and the DNS servers.                                 *)
(***************************************************************************)
DriverAp == [ssid |-> "ESP_XXXXXX", max_connection |-> 4]

RadioInit ==
    [mode |-> "NULL", ap |-> DriverAp, sta |-> "", dhcp_stopped |-> FALSE,
     dns |-> "", wps |-> FALSE, scans |-> 0]

SetCalls == {"restore", "set_mode", "set_config_ap", "set_config_sta",
             "set_dns_info", "start", "connect"}
GetCalls == {"get_mode", "get_config_sta", "dhcpc_get_status",
             "get_dns_info", "get_config_ap"}

(***************************************************************************)
(* set_wifi_cfg(cfg).  fails: the driver calls that return an error.       *)
(* The result is [cfg, current, radio, ok]: *cfg as the function leaves it *)
(* (max_connection is written through the pointer, after the copy to       *)
(* cfg_state.current), and the status of the last call made.               *)
(***************************************************************************)
set_wifi_cfg(cfg, r, fails) ==
    LET cur == cfg
        r1 == IF "restore" \in fails THEN r
              ELSE [r EXCEPT !.mode = RadioInit.mode, !.ap = RadioInit.ap,
                             !.sta = RadioInit.sta]
        r2 == IF "set_mode" \in fails THEN r1 ELSE [r1 EXCEPT !.mode = cfg.mode]
        cfg1 == IF ApBearing(cfg.mode)
                THEN [cfg EXCEPT !.ap.max_connection = MAX_AP_CLIENTS]
                ELSE cfg
        r3 == IF ApBearing(cfg.mode) /\ "set_config_ap" \notin fails
              THEN [r2 EXCEPT !.ap = cfg1.ap] ELSE r2
        r4 == IF StaBearing(cfg.mode) /\ "set_config_sta" \notin fails
              THEN [r3 EXCEPT !.sta = cfg1.sta] ELSE r3
        r5 == IF StaBearing(cfg.mode)
              THEN [r4 EXCEPT !.dhcp_stopped = cfg.sta_static] ELSE r4
        dns_called == StaBearing(cfg.mode) /\ cfg.sta_static
                      /\ cfg.sta_dns_info # ""
        dns_failed == dns_called /\ "set_dns_info" \in fails
        r6 == IF dns_called /\ ~dns_failed
              THEN [r5 EXCEPT !.dns = cfg.sta_dns_info] ELSE r5
        connect_called == cfg.sta_connect /\ StaBearing(cfg.mode)
        ok == IF dns_failed THEN FALSE
              ELSE IF connect_called THEN "connect" \notin fails
              ELSE "start" \notin fails
    IN  [cfg |-> cfg1, current |-> cur, radio |-> r6, ok |-> ok]

(***************************************************************************)
(* get_wifi_cfg(cfg).  fail: the first driver call that returns an error   *)
(* ("none": all succeed).  The result is [cfg, ok]; on an error cfg holds  *)
(* what had been fetched so far, the rest zeroed.                          *)
(***************************************************************************)
get_wifi_cfg(r, events, fail) ==
    LET c0 == [ZeroCfg EXCEPT !.sta_connect = sta_connected(events)]
        c1 == [c0 EXCEPT !.mode = r.mode]
        c2 == [c1 EXCEPT !.sta = r.sta]
        c3 == IF r.dhcp_stopped THEN [c2 EXCEPT !.sta_static = TRUE] ELSE c2
        c4 == IF r.dhcp_stopped THEN [c3 EXCEPT !.sta_dns_info = r.dns] ELSE c3
        c5 == [c4 EXCEPT !.ap = r.ap]
    IN  CASE fail = "get_mode" -> [cfg |-> c0, ok |-> FALSE]
          [] fail = "get_config_sta" -> [cfg |-> c1, ok |-> FALSE]
          [] fail = "dhcpc_get_status" -> [cfg |-> c2, ok |-> FALSE]
          [] fail = "get_dns_info" /\ r.dhcp_stopped -> [cfg |-> c3, ok |-> FALSE]
          [] fail = "get_config_ap" -> [cfg |-> c4, ok |-> FALSE]
          [] OTHER -> [cfg |-> c5, ok |-> TRUE]

(***************************************************************************)
(* The namespace "esp_wmngr": per key the stored length ("none": no such   *)
(* key) and the data.  mode, sta_static and sta_connect are u32 values,    *)
(* the rest are blobs of the size of their struct.                         *)
(***************************************************************************)
Keys == <<"mode", "sta_static", "sta_connect", "ap", "sta", "ap_ip",
          "sta_ip", "sta_dns">>
KeySet == {Keys[i] : i \in 1 .. Len(Keys)}

\* The length a record of this key has when save_config() wrote it.
SizeOf(k) ==
    CASE k \in {"mode", "sta_static", "sta_connect"} -> "u32"
      [] k \in {"ap", "sta"} -> "wifi_config_t"
      [] k \in {"ap_ip", "sta_ip"} -> "tcpip_adapter_ip_info_t"
      [] k = "sta_dns" -> "tcpip_adapter_dns_info_t[]"

NoEntry(k) ==
    [len |-> "none",
     data |-> CASE k \in {"mode", "sta_static", "sta_connect"} -> 0
                [] k = "ap" -> ZeroAp
                [] OTHER -> ""]

EmptyStore == [k \in KeySet |-> NoEntry(k)]

\* wifi_mode_t as the u32 that nvs_set_u32() stores, and the cast back.
ModeToU32(m) ==
    CASE m = "NULL" -> 0 [] m = "STA" -> 1 [] m = "AP" -> 2 [] m = "APSTA" -> 3
U32ToMode(u) ==
    CASE u = 0 -> "NULL" [] u = 1 -> "STA" [] u = 2 -> "AP" [] OTHER -> "APSTA"
BoolToU32(b) == IF b THEN 1 ELSE 0
U32ToBool(u) == u # 0

\* A faulty variant of FieldOf: "ap_ip" and "sta_ip" are stored crosswise.
FieldOfSwapped(cfg, k) ==
    CASE k = "mode" -> ModeToU32(cfg.mode)
      [] k = "sta_static" -> BoolToU32(cfg.sta_static)
      [] k = "sta_connect" -> BoolToU32(cfg.sta_connect)
      [] k = "ap" -> cfg.ap
      [] k = "sta" -> cfg.sta
      [] k = "ap_ip" -> cfg.sta_ip_info
      [] k = "sta_ip" -> cfg.ap_ip_info
      [] k = "sta_dns" -> cfg.sta_dns_info

\* What save_config() passes to nvs_set_u32()/nvs_set_blob() for key k.
FieldOf(cfg, k) ==
    CASE k = "mode" -> ModeToU32(cfg.mode)
      [] k = "sta_static" -> BoolToU32(cfg.sta_static)
      [] k = "sta_connect" -> BoolToU32(cfg.sta_connect)
      [] k = "ap" -> cfg.ap
      [] k = "sta" -> cfg.sta
      [] k = "ap_ip" -> cfg.ap_ip_info
      [] k = "sta_ip" -> cfg.sta_ip_info
      [] k = "sta_dns" -> cfg.sta_dns_info

\* The namespace after the first n keys of cfg have been written.
WriteFields(store, cfg, n) ==
    [k \in KeySet |->
        IF \E i \in 1 .. n : Keys[i] = k
        THEN [len |-> SizeOf(k), data |-> FieldOf(cfg, k)]
        ELSE store[k]]

NoNvsFault ==
    [open |-> FALSE, erase |-> FALSE, commit |-> FALSE, write |-> 0,
     erase2 |-> FALSE]

\* A faulty variant of save_config: the fields are written over the old record.
save_configNoErase(store, cfg, f) ==
    LET cleanup(s) == IF f.erase2 THEN s ELSE EmptyStore
    IN  IF f.open THEN [store |-> store, ok |-> FALSE]
        ELSE IF f.erase THEN [store |-> cleanup(store), ok |-> FALSE]
        ELSE IF f.commit THEN [store |-> cleanup(store), ok |-> FALSE]
        ELSE IF cfg.is_default THEN [store |-> store, ok |-> TRUE]
        ELSE IF f.write # 0
             THEN [store |-> cleanup(WriteFields(store, cfg, f.write - 1)),
                   ok |-> FALSE]
        ELSE [store |-> WriteFields(store, cfg, Len(Keys)), ok |-> TRUE]

(***************************************************************************)
(* save_config(cfg).  f names what fails: nvs_open, the nvs_erase_all,    *)
(* the nvs_commit after it, the f.write-th nvs_set_* (0: none), and the    *)
(* nvs_erase_all of the error path.  The result is [store, ok].            *)
(***************************************************************************)
save_config(store, cfg, f) ==
    LET cleanup(s) == IF f.erase2 THEN s ELSE EmptyStore
    IN  IF f.open THEN [store |-> store, ok |-> FALSE]
        ELSE IF f.erase THEN [store |-> cleanup(store), ok |-> FALSE]
        ELSE IF f.commit THEN [store |-> cleanup(EmptyStore), ok |-> FALSE]
        ELSE IF cfg.is_default THEN [store |-> EmptyStore, ok |-> TRUE]
        ELSE IF f.write # 0
             THEN [store |-> cleanup(WriteFields(EmptyStore, cfg, f.write - 1)),
                   ok |-> FALSE]
        ELSE [store |-> WriteFields(EmptyStore, cfg, Len(Keys)), ok |-> TRUE]

(***************************************************************************)
(* get_saved_config(cfg).  The fields are read in the order of Keys; the   *)
(* first key that is missing or whose length is not the expected one ends  *)
(* the read with an error.  The result is [cfg, ok].                       *)
(***************************************************************************)
\* A faulty variant of KeyValid: the stored length is not compared.
KeyValidAnyLength(store, k) == store[k].len # "none"

KeyValid(store, k) == store[k].len = SizeOf(k)

\* The number of leading keys that read back without an error.
RECURSIVE ValidPrefix(_, _)
ValidPrefix(store, i) ==
    IF i > Len(Keys) THEN Len(Keys)
    ELSE IF KeyValid(store, Keys[i]) THEN ValidPrefix(store, i + 1)
    ELSE i - 1

get_saved_config(store, open_fails) ==
    LET n == IF open_fails THEN 0 ELSE ValidPrefix(store, 1)
        got(k) == \E i \in 1 .. n : Keys[i] = k
        cfg == [is_default |-> FALSE,
                mode |-> IF got("mode") THEN U32ToMode(store["mode"].data)
                         ELSE "NULL",
                sta_static |-> IF got("sta_static")
                               THEN U32ToBool(store["sta_static"].data)
                               ELSE FALSE,
                sta_connect |-> IF got("sta_connect")
                                THEN U32ToBool(store["sta_connect"].data)
                                ELSE FALSE,
                ap |-> IF got("ap") THEN store["ap"].data ELSE ZeroAp,
                sta |-> IF got("sta") THEN store["sta"].data ELSE "",
                ap_ip_info |-> IF got("ap_ip") THEN store["ap_ip"].data ELSE "",
                sta_ip_info |-> IF got("sta_ip") THEN store["sta_ip"].data
                                ELSE "",
                sta_dns_info |-> IF got("sta_dns") THEN store["sta_dns"].data
                                 ELSE ""]
    IN  [cfg |-> cfg, ok |-> ~open_fails /\ n = Len(Keys)]

\* esp_wmngr_init(): cfg_state.new is the saved config, or the defaults.
\* A faulty variant of the choice made in esp_wmngr_init(): what was read is
\* taken whatever get_saved_config() returned.
InitialNewUnchecked(store, open_fails) ==
    get_saved_config(store, open_fails).cfg

InitialNew(store, open_fails) ==
    LET l == get_saved_config(store, open_fails)
    IN  IF l.ok THEN l.cfg ELSE set_defaults

(***************************************************************************)
(* kref_get() and kref_put() on data set id; free_scan_data() is counted.  *)
(***************************************************************************)
\* A faulty variant of kref_get(): the reference is not counted.
kref_getUncounted(cnt, id) == cnt

kref_get(cnt, id) == [cnt EXCEPT ![id] = @ + 1]

\* A faulty variant of kref_put: the data set is released one reference early.
kref_putEarly(cnt, fr, id) ==
    [cnt |-> [cnt EXCEPT ![id] = @ - 1],
     freed |-> IF cnt[id] <= 2 THEN [fr EXCEPT ![id] = @ + 1] ELSE fr]

\* A faulty variant of kref_put: release() is never called.
kref_putNoRelease(cnt, fr, id) ==
    [cnt |-> [cnt EXCEPT ![id] = @ - 1], freed |-> fr]

\* [cnt, freed] after kref_put(&ref_cnt, free_scan_data)
kref_put(cnt, fr, id) ==
    [cnt |-> [cnt EXCEPT ![id] = @ - 1],
     freed |-> IF cnt[id] = 1 THEN [fr EXCEPT ![id] = @ + 1] ELSE fr]

(***************************************************************************)
(* What the environment may choose: the driver call that fails.            *)
(***************************************************************************)
GetFaults == {"none"} \cup GetCalls
SetFaults == SUBSET SetCalls
WpsFaults == {"none", "wps_enable", "wps_start"}
ScanStartFaults == {"none", "get_mode", "scan_start"}
ScanDoneOutcomes == {"ok", "no_aps", "nomem", "nomem_records",
                     "get_records_failed"}
NvsFaults ==
    {NoNvsFault, [NoNvsFault EXCEPT !.open = TRUE],
     [NoNvsFault EXCEPT !.erase = TRUE],
     [NoNvsFault EXCEPT !.erase = TRUE, !.erase2 = TRUE],
     [NoNvsFault EXCEPT !.commit = TRUE]}
    \cup {[NoNvsFault EXCEPT !.write = k] : k \in 1 .. Len(Keys)}
    \cup {[NoNvsFault EXCEPT !.write = k, !.erase2 = TRUE] : k \in 1 .. Len(Keys)}

\* The number of failing calls in a choice, and the choices still affordable.
Cost(f) == IF f = "none" THEN 0 ELSE 1
NvsCost(f) ==
    Cost(IF f.open \/ f.erase \/ f.commit \/ f.write # 0 THEN "f" ELSE "none")
    + Cost(IF f.erase2 THEN "f" ELSE "none")
Oks(spent) == IF spent < MaxFaults THEN BOOLEAN ELSE {TRUE}
OkCost(ok) == IF ok THEN 0 ELSE 1

(***************************************************************************)
(* handle_wifi() works on cfg_state, the event group, the driver and the   *)
(* scan data sets; L is all of that, as one record, while a step runs.     *)
(***************************************************************************)
Locals ==
    [state |-> state, saved |-> saved, current |-> current, new |-> new,
     elapsed |-> elapsed, scan_ref |-> scan_ref, events |-> wifi_events,
     radio |-> radio, ref_cnt |-> ref_cnt, freed |-> freed,
     n_alloc |-> n_alloc, delay |-> "none", origin |-> origin,
     req_nvs |-> req_nvs, faults |-> faults]

\* case wmngr_state_wps_start
CaseWpsStart(L, gf, sf, wf) ==
    LET g == get_wifi_cfg(L.radio, L.events, gf)
        n1 == [g.cfg EXCEPT !.sta = "", !.mode = "APSTA", !.sta_connect = FALSE]
        s == set_wifi_cfg(n1, L.radio, sf)
        applied == [L EXCEPT !.new = s.cfg, !.current = s.current,
                             !.radio = s.radio]
        cleared == [applied EXCEPT !.events = @ \ BITS_WPS]
        \* esp_wifi_wps_enable() has returned ESP_OK
        enabled == [cleared EXCEPT !.radio.wps = TRUE]
    IN  IF ~g.ok
        THEN [L EXCEPT !.new = g.cfg, !.state = "fallback", !.delay = "CFG_DELAY"]
        ELSE IF ~s.ok
        THEN [applied EXCEPT !.state = "fallback", !.delay = "CFG_DELAY"]
        ELSE IF wf = "wps_enable"
        THEN [cleared EXCEPT !.state = "fallback", !.delay = "CFG_DELAY"]
        ELSE IF wf = "wps_start"
        THEN [enabled EXCEPT !.state = "fallback", !.delay = "CFG_DELAY"]
        ELSE [enabled EXCEPT !.elapsed = 0, !.state = "wps_active",
                             !.delay = "CFG_TICKS"]

\* case wmngr_state_wps_active
\* A faulty variant of the wps_active case: the connect flag is left as
\* get_wifi_cfg() found it.
CaseWpsActiveNoConnect(L, gf, df) ==
    LET g == get_wifi_cfg(L.radio, L.events, gf)
        D == [L EXCEPT !.radio.wps = IF df THEN @ ELSE FALSE]
    IN  IF "WPS_SUCCESS" \in L.events
        THEN [D EXCEPT !.new = [g.cfg EXCEPT !.mode = "APSTA"],
                       !.state = "update", !.delay = "CFG_DELAY"]
        ELSE IF TimedOut(L.elapsed) \/ "WPS_FAILED" \in L.events
        THEN [D EXCEPT !.state = "fallback", !.delay = "CFG_DELAY"]
        ELSE [L EXCEPT !.delay = "CFG_TICKS"]

\* A faulty variant of the wps_active case: a flagged failure is looked at
\* first.
CaseWpsActiveFailedFirst(L, gf, df) ==
    LET g == get_wifi_cfg(L.radio, L.events, gf)
        D == [L EXCEPT !.radio.wps = IF df THEN @ ELSE FALSE]
    IN  IF TimedOut(L.elapsed) \/ "WPS_FAILED" \in L.events
        THEN [D EXCEPT !.state = "fallback", !.delay = "CFG_DELAY"]
        ELSE IF "WPS_SUCCESS" \in L.events
        THEN [D EXCEPT !.new = [g.cfg EXCEPT !.mode = "APSTA",
                                             !.sta_connect = TRUE],
                       !.state = "update", !.delay = "CFG_DELAY"]
        ELSE [L EXCEPT !.delay = "CFG_TICKS"]

\* gf: the call of get_wifi_cfg() that fails; df: esp_wifi_wps_disable()
\* fails, which is logged only.
CaseWpsActive(L, gf, df) ==
    LET g == get_wifi_cfg(L.radio, L.events, gf)
        D == [L EXCEPT !.radio.wps = IF df THEN @ ELSE FALSE]
    IN  IF "WPS_SUCCESS" \in L.events
        THEN [D EXCEPT !.new = [g.cfg EXCEPT !.mode = "APSTA",
                                             !.sta_connect = TRUE],
                       !.state = "update", !.delay = "CFG_DELAY"]
        ELSE IF TimedOut(L.elapsed) \/ "WPS_FAILED" \in L.events
        THEN [D EXCEPT !.state = "fallback", !.delay = "CFG_DELAY"]
        ELSE [L EXCEPT !.delay = "CFG_TICKS"]

\* A faulty variant of CaseUpdate: sta_connect is not looked at.
CaseUpdateModeOnly(L, sf) ==
    LET s == set_wifi_cfg(L.new, L.radio, sf)
        applied == [L EXCEPT !.new = s.cfg, !.current = s.current,
                             !.radio = s.radio]
    IN  IF ~s.ok
        THEN [applied EXCEPT !.state = "fallback", !.delay = "CFG_DELAY"]
        ELSE IF s.cfg.mode = "AP"
        THEN [applied EXCEPT !.state = "idle"]
        ELSE [applied EXCEPT !.elapsed = 0, !.state = "connecting",
                             !.delay = "CFG_TICKS"]

\* case wmngr_state_update
CaseUpdate(L, sf) ==
    LET \* (void) esp_wifi_scan_stop();
        stopped == [L.radio EXCEPT !.scans = 0]
        s == set_wifi_cfg(L.new, stopped, sf)
        applied == [L EXCEPT !.new = s.cfg, !.current = s.current,
                             !.radio = s.radio]
    IN  IF ~s.ok
        THEN [applied EXCEPT !.state = "fallback", !.delay = "CFG_DELAY"]
        ELSE IF s.cfg.mode = "AP" \/ ~s.cfg.sta_connect
        THEN [applied EXCEPT !.state = "idle"]
        ELSE [applied EXCEPT !.elapsed = 0, !.state = "connecting",
                             !.delay = "CFG_TICKS"]

\* case wmngr_state_connecting, up to the call of save_config()
CaseConnecting(L) ==
    IF sta_connected(L.events) THEN [L EXCEPT !.state = "connected"]
    ELSE IF TimedOut(L.elapsed)
    THEN [L EXCEPT !.state = "fallback", !.delay = "CFG_DELAY"]
    ELSE [L EXCEPT !.delay = "CFG_TICKS"]

\* case wmngr_state_fallback
CaseFallback(L, sf) ==
    LET s == set_wifi_cfg(L.saved, L.radio, sf)
    IN  [L EXCEPT !.saved = s.cfg, !.current = s.current, !.radio = s.radio,
                  !.state = "failed"]

\* A faulty variant of CaseConnected: a lost connection is given up, not retried.
CaseConnectedFallsBack(L) ==
    IF ~sta_connected(L.events)
    THEN [L EXCEPT !.state = "fallback", !.delay = "CFG_DELAY"]
    ELSE L

\* A faulty variant of CaseConnected: the config is re-applied on every run.
CaseConnectedAlways(L) ==
    [L EXCEPT !.state = "update", !.delay = "CFG_DELAY",
              !.origin = "retry", !.req_nvs = nvs]

\* case wmngr_state_connected
\* A faulty variant of the connected case: a lost connection leads to the
\* reserved state.
CaseConnectedDisconnecting(L) ==
    IF ~sta_connected(L.events)
    THEN [L EXCEPT !.state = "disconnecting", !.delay = "CFG_DELAY"]
    ELSE L

CaseConnected(L) ==
    IF ~sta_connected(L.events)
    THEN [L EXCEPT !.state = "update", !.delay = "CFG_DELAY",
                   !.origin = "retry", !.req_nvs = nvs]
    ELSE L

\* M after n more calls have failed.
Charge(M, n) == [M EXCEPT !.faults = @ + n]

\* The switch of handle_wifi(): every outcome the environment may choose.
Dispatch(L) ==
    LET left == MaxFaults - L.faults
        sfs == {sf \in SetFaults : Cardinality(sf) <= left}
        wps == {c \in GetFaults \X SetFaults \X WpsFaults :
                   Cost(c[1]) + Cardinality(c[2]) + Cost(c[3]) <= left}
        wpa == {c \in GetFaults \X BOOLEAN :
                   Cost(c[1]) + (IF c[2] THEN 1 ELSE 0) <= left}
    IN  CASE L.state = "wps_start" ->
                {Charge(CaseWpsStart(L, c[1], c[2], c[3]),
                        Cost(c[1]) + Cardinality(c[2]) + Cost(c[3])) : c \in wps}
          [] L.state = "wps_active" ->
                {Charge(CaseWpsActive(L, c[1], c[2]),
                        Cost(c[1]) + (IF c[2] THEN 1 ELSE 0)) : c \in wpa}
          [] L.state = "update" ->
                {Charge(CaseUpdate(L, sf), Cardinality(sf)) : sf \in sfs}
          [] L.state = "connecting" -> {CaseConnecting(L)}
          [] L.state = "fallback" ->
                {Charge(CaseFallback(L, sf), Cardinality(sf)) : sf \in sfs}
          [] L.state = "connected" -> {CaseConnected(L)}
          [] OTHER -> {L}

\* radio.scans counts the scans the radio has accepted and not ended, up to
\* ScanCap.
ScanCap == 2

\* A faulty variant of wifi_scan_start(): the request is cleared, no scan
\* is asked for.
wifi_scan_startDropped(L, fault) ==
    IF Busy(L.state) THEN L
    ELSE [L EXCEPT !.events = @ \ {"SCAN_START"}]

\* A faulty variant of wifi_scan_start(): a scan is asked for whatever the
\* scan flags say.
wifi_scan_startAgain(L, fault) ==
    IF Busy(L.state) THEN L
    ELSE IF fault = "get_mode" \/ ~StaBearing(L.radio.mode)
    THEN [L EXCEPT !.events = @ \ {"SCAN_START"}]
    ELSE [L EXCEPT !.events = @ \cup {"SCAN_START", "SCAN_RUNNING"},
                   !.radio.scans = IF @ < ScanCap THEN @ + 1 ELSE @]

\* A faulty variant of wifi_scan_start(): BIT_SCAN_START is not set again
\* before esp_wifi_scan_start() is called.
wifi_scan_startOnce(L, fault) ==
    LET ev1 == L.events \ {"SCAN_START"}
    IN  IF Busy(L.state) THEN L
        ELSE IF fault = "get_mode" \/ ~StaBearing(L.radio.mode)
        THEN [L EXCEPT !.events = ev1]
        ELSE IF ev1 \cap {"SCAN_RUNNING", "SCAN_DONE"} = {}
        THEN IF fault = "scan_start" THEN [L EXCEPT !.events = ev1]
             ELSE [L EXCEPT !.events = ev1 \cup {"SCAN_RUNNING"},
                            !.radio.scans = IF @ < ScanCap THEN @ + 1 ELSE @]
        ELSE [L EXCEPT !.events = ev1]

(***************************************************************************)
(* wifi_scan_start()                                                       *)
(***************************************************************************)
wifi_scan_start(L, fault) ==
    LET ev1 == L.events \ {"SCAN_START"}
        ev2 == ev1 \cup {"SCAN_START"}
    IN  IF Busy(L.state) THEN L
        ELSE IF fault = "get_mode" \/ ~StaBearing(L.radio.mode)
        THEN [L EXCEPT !.events = ev1]
        ELSE IF ev1 \cap {"SCAN_RUNNING", "SCAN_DONE"} = {}
        THEN IF fault = "scan_start" THEN [L EXCEPT !.events = ev2]
             ELSE [L EXCEPT !.events = ev2 \cup {"SCAN_RUNNING"},
                            !.radio.scans = IF @ < ScanCap THEN @ + 1 ELSE @]
        ELSE [L EXCEPT !.events = ev1]

(***************************************************************************)
(* wifi_scan_done().  outcome: what the driver and calloc() answer.        *)
(***************************************************************************)
wifi_scan_done(L, outcome) ==
    LET id == L.n_alloc + 1
        flags == L.events \ {"SCAN_RUNNING", "SCAN_DONE"}
        \* new = calloc(); kref_init(&(new->ref_cnt));
        made == [L EXCEPT !.n_alloc = id, !.ref_cnt[id] = 1]
        \* on_exit: esp_wmngr_put_scan(&(new->data));
        drop(M) == LET p == kref_put(M.ref_cnt, M.freed, id)
                   IN  [M EXCEPT !.ref_cnt = p.cnt, !.freed = p.freed]
        got == [made EXCEPT !.ref_cnt = kref_get(@, id), !.scan_ref = id,
                            !.events = flags]
        old == L.scan_ref
        swapped == IF old # 0
                   THEN LET p == kref_put(got.ref_cnt, got.freed, old)
                        IN  [got EXCEPT !.ref_cnt = p.cnt, !.freed = p.freed]
                   ELSE got
    IN  IF outcome = "no_aps" THEN [L EXCEPT !.events = flags]
        ELSE IF outcome = "nomem" \/ L.n_alloc >= MaxSnap THEN L
        ELSE IF outcome = "nomem_records" THEN drop(made)
        ELSE IF outcome = "get_records_failed"
        THEN drop([made EXCEPT !.events = flags])
        ELSE drop(swapped)

(***************************************************************************)
(* The end of handle_wifi(): in a stable state the pending scan request or *)
(* scan result is served, from the events sampled on entry, and the timer  *)
(* is asked for again while SCAN_START or SCAN_DONE is set.                *)
(***************************************************************************)
ScanStep(L, sampled) ==
    LET left == MaxFaults - L.faults
        ScanCost(o) == IF o \in {"ok", "no_aps"} THEN 0 ELSE 1
        served ==
            IF "SCAN_START" \in sampled
            THEN {Charge(wifi_scan_start(L, f), Cost(f)) :
                     f \in {f \in ScanStartFaults : Cost(f) <= left}}
            ELSE IF "SCAN_DONE" \in sampled
            THEN {Charge(wifi_scan_done(L, o), ScanCost(o)) :
                     o \in {o \in ScanDoneOutcomes : ScanCost(o) <= left}}
            ELSE {L}
        again(M) == IF M.events \cap {"SCAN_START", "SCAN_DONE"} # {}
                    THEN [M EXCEPT !.delay = "CFG_DELAY"] ELSE M
    IN  IF Busy(L.state) THEN {L} ELSE {again(M) : M \in served}

(***************************************************************************)
(* handle_wifi(), in the steps another context can tell apart.             *)
(***************************************************************************)
NoCall == "none"

\* cfg_state, the event group, the driver and the data sets become L's.
Commit(L) ==
    /\ state' = L.state
    /\ saved' = L.saved
    /\ current' = L.current
    /\ new' = L.new
    /\ elapsed' = L.elapsed
    /\ scan_ref' = L.scan_ref
    /\ wifi_events' = L.events
    /\ radio' = L.radio
    /\ ref_cnt' = L.ref_cnt
    /\ freed' = L.freed
    /\ n_alloc' = L.n_alloc
    /\ delay' = L.delay
    /\ origin' = L.origin
    /\ req_nvs' = L.req_nvs
    /\ faults' = L.faults

(***************************************************************************)
(* The timer expires (or, with CONFIG_WMNGR_TASK, esp_wmngr_task() finds   *)
(* and clears BIT_TRIGGER) and handle_wifi() runs: without the lock it     *)
(* asks for the timer again and returns; with it, it runs up to the        *)
(* release of the lock, or up to the call of save_config().                *)
(***************************************************************************)
\* A faulty variant of handle_wifi(): finding the lock held, it gives up.
SmStartGivesUp ==
    /\ IF task THEN sm_pc = "clear" ELSE sm_pc = "wait" /\ timer_armed
    /\ lock # "free"
    /\ state' = "failed"
    /\ timer_armed' = FALSE
    /\ call' = NoCall
    /\ UNCHANGED <<saved, current, new, elapsed, scan_ref, lock, wifi_events,
                   task, sm_vars, radio, nvs, scan_vars, hist_vars, faults,
                   conn, requests>>

SmStart ==
    /\ IF task THEN sm_pc = "clear" ELSE sm_pc = "wait" /\ timer_armed
    /\ call' = NoCall
    /\ UNCHANGED <<task, nvs, held, conn, requests>>
    /\ LET ev0 == IF task THEN wifi_events \ {"TRIGGER"} ELSE wifi_events
           tm0 == IF task THEN timer_armed ELSE FALSE
           L0 == [Locals EXCEPT !.events = ev0]
       IN  IF lock # "free"
           THEN /\ \E ok \in Oks(faults) :
                     /\ timer_armed' = (tm0 \/ ok)
                     /\ faults' = faults + OkCost(ok)
                /\ wifi_events' = ev0
                /\ sm_pc' = "wait"
                /\ UNCHANGED <<cfg_vars, lock, sm_events, delay, radio,
                               ref_cnt, freed, n_alloc, hist_vars>>
           ELSE /\ lock' = "sm"
                /\ timer_armed' = tm0
                /\ unseen' = FALSE
                /\ fresh' = IF state = "update" THEN FALSE ELSE fresh
                /\ \E mode_ok \in Oks(faults) :
                     IF ~mode_ok
                     THEN /\ Commit(Charge([L0 EXCEPT !.state = "failed"], 1))
                          /\ sm_pc' = "exit"
                          /\ sm_events' = {}
                     ELSE \E L1 \in Dispatch(L0) :
                            IF state = "connecting" /\ L1.state = "connected"
                            THEN /\ Commit(L1)
                                 /\ sm_pc' = "save"
                                 /\ sm_events' = ev0
                            ELSE /\ \E L2 \in ScanStep(L1, ev0) : Commit(L2)
                                 /\ sm_pc' = "exit"
                                 /\ sm_events' = {}

\* esp_wmngr_task(): xEventGroupWaitBits() finds BIT_TRIGGER and clears it
\* on its way out; xEventGroupClearBits() and handle_wifi() come next
esp_wmngr_task ==
    /\ task
    /\ sm_pc = "wait"
    /\ "TRIGGER" \in wifi_events
    /\ wifi_events' = wifi_events \ {"TRIGGER"}
    /\ sm_pc' = "clear"
    /\ call' = NoCall
    /\ UNCHANGED <<cfg_vars, lock, timer_armed, task, sm_events, delay,
                   radio, nvs, scan_vars, hist_vars, faults, conn, requests>>

\* result = save_config(&cfg_state.new), and the rest up to on_exit
SmSave ==
    /\ sm_pc = "save"
    /\ call' = NoCall
    /\ \E f \in {f \in NvsFaults : faults + NvsCost(f) <= MaxFaults} :
         /\ nvs' = save_config(nvs, new, f).store
         /\ \E L2 \in ScanStep(Charge(Locals, NvsCost(f)), sm_events) :
              Commit(L2)
    /\ sm_pc' = "exit"
    /\ sm_events' = {}
    /\ UNCHANGED <<lock, timer_armed, task, held, unseen, fresh, conn, requests>>

\* on_exit: xSemaphoreGive(cfg_state.lock)
SmExit ==
    /\ sm_pc = "exit"
    /\ call' = NoCall
    /\ lock' = "free"
    /\ sm_pc' = IF delay = "none" THEN "wait" ELSE "rearm"
    /\ UNCHANGED <<cfg_vars, wifi_events, timer_armed, task, sm_events, delay,
                   radio, nvs, scan_vars, hist_vars, faults, conn, requests>>

\* if(delay > 0) xTimerChangePeriod(); on failure state = wmngr_state_failed
SmRearm ==
    /\ sm_pc = "rearm"
    /\ call' = NoCall
    /\ sm_pc' = "wait"
    /\ delay' = "none"
    /\ \E ok \in Oks(faults) :
         /\ faults' = faults + OkCost(ok)
         /\ IF ok THEN timer_armed' = TRUE /\ state' = state
            ELSE timer_armed' = timer_armed /\ state' = "failed"
    /\ UNCHANGED <<saved, current, new, elapsed, scan_ref, lock,
                   wifi_events, task, sm_events, radio, nvs, scan_vars,
                   hist_vars, conn, requests>>

\* handle_timer() with CONFIG_WMNGR_TASK: the auto-reload timer sets the bit
handle_timer ==
    /\ task
    /\ timer_armed
    /\ call' = NoCall
    /\ wifi_events' = wifi_events \cup {"TRIGGER"}
    /\ UNCHANGED <<cfg_vars, lock, timer_armed, task, sm_vars, radio, nvs,
                   scan_vars, hist_vars, faults, conn, requests>>

(***************************************************************************)
(* The tick counter advances.  While the machine waits in connecting or    *)
(* wps_active and the deadline has passed, the next step comes before the  *)
(* next tick: the timer period is short against the range of the counter.  *)
(***************************************************************************)
Tick ==
    /\ ~(state \in {"connecting", "wps_active"} /\ TimedOut(elapsed))
    /\ elapsed' = (elapsed + 1) % TickMod
    /\ call' = NoCall
    /\ UNCHANGED <<state, saved, current, new, scan_ref, lock, wifi_events,
                   timer_armed, task, sm_vars, radio, nvs, scan_vars,
                   hist_vars, faults, conn, requests>>

(***************************************************************************)
(* event_handler(): the bits an event sets and clears.                     *)
(***************************************************************************)
EventIds == {"SCAN_DONE_OK", "SCAN_DONE_FAILED", "STA_START", "STA_STOP",
             "STA_CONNECTED", "STA_DISCONNECTED", "AP_START", "AP_STOP",
             "WPS_ER_SUCCESS", "WPS_ER_FAILED", "STA_GOT_IP", "STA_LOST_IP"}

EventBits(id, events) ==
    CASE id = "SCAN_DONE_OK" -> (events \cup {"SCAN_DONE"}) \ {"SCAN_START"}
      [] id = "SCAN_DONE_FAILED" -> events \ {"SCAN_START"}
      [] id = "STA_START" -> events \cup {"STA_START"}
      [] id = "STA_STOP" -> events \ {"STA_START"}
      [] id = "STA_CONNECTED" -> events \cup {"STA_CONNECTED"}
      [] id = "STA_DISCONNECTED" -> events \ {"STA_CONNECTED"}
      [] id = "AP_START" -> events \cup {"AP_START"}
      [] id = "AP_STOP" -> events \ {"AP_START"}
      [] id = "WPS_ER_SUCCESS" -> events \cup {"WPS_SUCCESS"}
      [] id = "WPS_ER_FAILED" -> events \cup {"WPS_FAILED"}
      [] id = "STA_GOT_IP" -> events \cup {"STA_GOT_IP"}
      [] id = "STA_LOST_IP" -> events \ {"STA_GOT_IP"}
      [] OTHER -> events

\* The credentials a WPS exchange leaves in the driver's STA config.
WpsSta == "wps-ap"

\* A faulty variant of event_handler: it waits for cfg_state.lock first.
event_handlerLocked(id) ==
    /\ lock = "free"
    /\ call' = NoCall
    /\ radio' = IF id = "WPS_ER_SUCCESS" THEN [radio EXCEPT !.sta = WpsSta]
                ELSE IF id \in {"SCAN_DONE_OK", "SCAN_DONE_FAILED"}
                THEN [radio EXCEPT !.scans = IF @ > 0 THEN @ - 1 ELSE 0]
                ELSE radio
    /\ LET bits == EventBits(id, wifi_events)
       IN  IF bits = wifi_events
           THEN UNCHANGED <<wifi_events, timer_armed, state, faults>>
           ELSE IF task
           THEN /\ wifi_events' = bits \cup {"TRIGGER"}
                /\ UNCHANGED <<timer_armed, state, faults>>
           ELSE /\ wifi_events' = bits
                /\ \E ok \in Oks(faults) :
                     /\ faults' = faults + OkCost(ok)
                     /\ IF ok THEN timer_armed' = TRUE /\ state' = state
                        ELSE timer_armed' = timer_armed /\ state' = "failed"
    /\ unseen' = (unseen \/ EventBits(id, wifi_events) # wifi_events)
    /\ fresh' = IF id = "STA_CONNECTED" THEN TRUE
                ELSE IF id = "STA_DISCONNECTED" THEN FALSE ELSE fresh
    /\ UNCHANGED <<saved, current, new, elapsed, scan_ref, lock, task,
                   sm_vars, nvs, scan_vars, origin, req_nvs, conn, requests>>

event_handler(id) ==
    /\ call' = NoCall
    /\ radio' = IF id = "WPS_ER_SUCCESS" THEN [radio EXCEPT !.sta = WpsSta]
                ELSE IF id \in {"SCAN_DONE_OK", "SCAN_DONE_FAILED"}
                THEN [radio EXCEPT !.scans = IF @ > 0 THEN @ - 1 ELSE 0]
                ELSE radio
    /\ LET bits == EventBits(id, wifi_events)
       IN  IF bits = wifi_events
           THEN UNCHANGED <<wifi_events, timer_armed, state, faults>>
           ELSE IF task
           THEN /\ wifi_events' = bits \cup {"TRIGGER"}
                /\ UNCHANGED <<timer_armed, state, faults>>
           ELSE /\ wifi_events' = bits
                /\ \E ok \in Oks(faults) :
                     /\ faults' = faults + OkCost(ok)
                     /\ IF ok THEN timer_armed' = TRUE /\ state' = state
                        ELSE timer_armed' = timer_armed /\ state' = "failed"
    /\ unseen' = (unseen \/ EventBits(id, wifi_events) # wifi_events)
    /\ fresh' = IF id = "STA_CONNECTED" THEN TRUE
                ELSE IF id = "STA_DISCONNECTED" THEN FALSE ELSE fresh
    /\ UNCHANGED <<saved, current, new, elapsed, scan_ref, lock, task,
                   sm_vars, nvs, scan_vars, origin, req_nvs, conn, requests>>

(***************************************************************************)
(* The public calls.  A call that takes cfg_state.lock runs to its         *)
(* on_exit in one step and gives the lock back in a second one             *)
(* (ApiReturn), so that handle_wifi() can meet a taken lock.  call is what *)
(* the call of this step returned.                                         *)
(***************************************************************************)
Returned(op, ret) == call' = ret

\* esp_wmngr_set_cfg(X), after the lock was tried for CFG_DELAY
\* A faulty variant of esp_wmngr_set_cfg(): the update is triggered, saved
\* is left as it was.
SetCfgBodyNoCapture(op, X) ==
    /\ lock = "free"
    /\ ~Busy(state)
    /\ lock' = "api"
    /\ new' = [X EXCEPT !.is_default = FALSE]
    /\ state' = "update"
    /\ timer_armed' = TRUE
    /\ origin' = op
    /\ req_nvs' = nvs
    /\ unseen' = unseen
    /\ fresh' = fresh
    /\ Returned(op, "ESP_OK")
    /\ UNCHANGED <<saved, faults>>

\* A faulty variant of esp_wmngr_set_cfg(): the AP and STA sections are
\* compared whatever the mode asked for.
SetCfgBodyAnySection(op, X) ==
    IF lock # "free"
    THEN /\ Returned(op, "ESP_ERR_TIMEOUT")
         /\ UNCHANGED <<state, saved, new, lock, timer_armed, hist_vars, faults>>
    ELSE
      /\ lock' = "api"
      /\ IF Busy(state)
         THEN /\ Returned(op, "ESP_ERR_INVALID_STATE")
              /\ UNCHANGED <<state, saved, new, timer_armed, hist_vars, faults>>
         ELSE
           \E gf \in {f \in GetFaults : faults + Cost(f) <= MaxFaults} :
             LET g == get_wifi_cfg(radio, wifi_events, gf)
                 sv == IF ~sta_connected(wifi_events)
                       THEN [g.cfg EXCEPT !.sta = ""] ELSE g.cfg
                 nw == [X EXCEPT !.is_default = FALSE]
                 update == \/ nw.mode # sv.mode
                           \/ nw.ap # sv.ap
                           \/ nw.sta # sv.sta
             IN  IF ~g.ok
                 THEN /\ saved' = g.cfg
                      /\ faults' = faults + 1
                      /\ Returned(op, "ESP_FAIL")
                      /\ UNCHANGED <<state, new, timer_armed, hist_vars>>
                 ELSE
                   /\ saved' = sv
                   /\ new' = nw
                   /\ IF update
                      THEN \E ok \in Oks(faults) :
                             /\ faults' = faults + OkCost(ok)
                             /\ IF ok
                                THEN /\ state' = "update"
                                     /\ timer_armed' = TRUE
                                     /\ origin' = op
                                     /\ req_nvs' = nvs
                                     /\ unseen' = unseen
                                     /\ fresh' = fresh
                                     /\ Returned(op, "ESP_OK")
                                ELSE /\ state' = "failed"
                                     /\ Returned(op, "ESP_ERR_TIMEOUT")
                                     /\ UNCHANGED <<timer_armed, hist_vars>>
                      ELSE /\ Returned(op, "ESP_OK")
                           /\ UNCHANGED <<state, timer_armed, hist_vars, faults>>

SetCfgBody(op, X) ==
    IF lock # "free"
    THEN /\ Returned(op, "ESP_ERR_TIMEOUT")
         /\ UNCHANGED <<state, saved, new, lock, timer_armed, hist_vars, faults>>
    ELSE
      /\ lock' = "api"
      /\ IF Busy(state)
         THEN /\ Returned(op, "ESP_ERR_INVALID_STATE")
              /\ UNCHANGED <<state, saved, new, timer_armed, hist_vars, faults>>
         ELSE
           \E gf \in {f \in GetFaults : faults + Cost(f) <= MaxFaults} :
             LET g == get_wifi_cfg(radio, wifi_events, gf)
                 sv == IF ~sta_connected(wifi_events)
                       THEN [g.cfg EXCEPT !.sta = ""] ELSE g.cfg
                 nw == [X EXCEPT !.is_default = FALSE]
                 update == \/ nw.mode # sv.mode
                           \/ ApBearing(X.mode) /\ nw.ap # sv.ap
                           \/ StaBearing(X.mode) /\ nw.sta # sv.sta
             IN  IF ~g.ok
                 THEN /\ saved' = g.cfg
                      /\ faults' = faults + 1
                      /\ Returned(op, "ESP_FAIL")
                      /\ UNCHANGED <<state, new, timer_armed, hist_vars>>
                 ELSE
                   /\ saved' = sv
                   /\ new' = nw
                   /\ IF update
                      THEN \E ok \in Oks(faults) :
                             /\ faults' = faults + OkCost(ok)
                             /\ IF ok
                                THEN /\ state' = "update"
                                     /\ timer_armed' = TRUE
                                     /\ origin' = op
                                     /\ req_nvs' = nvs
                                     /\ unseen' = unseen
                                     /\ fresh' = fresh
                                     /\ Returned(op, "ESP_OK")
                                ELSE /\ state' = "failed"
                                     /\ Returned(op, "ESP_ERR_TIMEOUT")
                                     /\ UNCHANGED <<timer_armed, hist_vars>>
                      ELSE /\ Returned(op, "ESP_OK")
                           /\ UNCHANGED <<state, timer_armed, hist_vars, faults>>

\* A call that finds the lock free and the state stable is a request.
Accepted == lock = "free" /\ ~Busy(state)
Counted ==
    /\ Accepted => requests < MaxRequests
    /\ requests' = IF Accepted THEN requests + 1 ELSE requests

esp_wmngr_set_cfg(X) ==
    /\ Counted
    /\ SetCfgBody("set_cfg", X)
    /\ UNCHANGED <<current, elapsed, scan_ref, wifi_events, task,
                   sm_vars, radio, nvs, scan_vars, conn>>

\* No set_connect() is between its two calls.
NoConn == [op |-> "none", cfg |-> ZeroCfg]

(***************************************************************************)
(* set_connect(): esp_wmngr_get_cfg(), the test of the mode, and the       *)
(* change of sta_connect in the copy.  The lock is given back before       *)
(* esp_wmngr_set_cfg() takes it again (SetConnectSet).                     *)
(***************************************************************************)
set_connect(connect) ==
    LET op == IF connect THEN "connect" ELSE "disconnect"
    IN  /\ conn = NoConn
        /\ Counted
        /\ IF lock # "free"
           THEN /\ Returned(op, "ESP_ERR_TIMEOUT")
                /\ UNCHANGED <<lock, conn>>
           ELSE /\ lock' = "api"
                /\ IF Busy(state) \/ ~StaBearing(current.mode)
                   THEN /\ Returned(op, "ESP_ERR_INVALID_STATE")
                        /\ conn' = conn
                   ELSE /\ call' = NoCall
                        /\ conn' = [op |-> op,
                                    cfg |-> [current EXCEPT
                                                !.sta_connect = connect]]
        /\ UNCHANGED <<cfg_vars, wifi_events, timer_armed, task, sm_vars, radio, nvs, scan_vars, hist_vars, faults>>

\* result = esp_wmngr_set_cfg(&cfg) of set_connect(), esp_wmngr_get_cfg() done
SetConnectSet ==
    /\ conn # NoConn
    /\ lock # "api"
    /\ SetCfgBody(conn.op, conn.cfg)
    /\ conn' = NoConn
    /\ UNCHANGED <<current, elapsed, scan_ref, wifi_events, task,
                   sm_vars, radio, nvs, scan_vars, requests>>

esp_wmngr_connect == set_connect(TRUE)

esp_wmngr_disconnect == set_connect(FALSE)

esp_wmngr_start_wps ==
    /\ Counted
    /\ IF lock # "free"
       THEN /\ Returned("start_wps", "ESP_ERR_TIMEOUT")
            /\ UNCHANGED <<state, saved, lock, timer_armed, hist_vars, faults>>
       ELSE
         /\ lock' = "api"
         /\ IF Busy(state)
            THEN /\ Returned("start_wps", "ESP_ERR_INVALID_STATE")
                 /\ UNCHANGED <<state, saved, timer_armed, hist_vars, faults>>
            ELSE
              \E gf \in {f \in GetFaults : faults + Cost(f) <= MaxFaults} :
                LET g == get_wifi_cfg(radio, wifi_events, gf)
                IN  IF ~g.ok
                    THEN /\ Returned("start_wps", "ESP_FAIL")
                         /\ faults' = faults + 1
                         /\ UNCHANGED <<state, saved, timer_armed, hist_vars>>
                    ELSE
                      /\ saved' = g.cfg
                      /\ Returned("start_wps", "ESP_OK")
                      /\ \E ok \in Oks(faults) :
                           /\ faults' = faults + OkCost(ok)
                           /\ IF ok
                              THEN /\ state' = "wps_start"
                                   /\ timer_armed' = TRUE
                                   /\ origin' = "start_wps"
                                   /\ req_nvs' = nvs
                                   /\ unseen' = unseen
                                   /\ fresh' = fresh
                              ELSE /\ state' = "failed"
                                   /\ UNCHANGED <<timer_armed, hist_vars>>
    /\ UNCHANGED <<current, new, elapsed, scan_ref, wifi_events, task,
                   sm_vars, radio, nvs, scan_vars, conn>>

\* esp_wmngr_start_scan() takes no lock
esp_wmngr_start_scan ==
    /\ IF task
       THEN /\ wifi_events' = wifi_events \cup {"SCAN_START", "TRIGGER"}
            /\ Returned("start_scan", "ESP_OK")
            /\ UNCHANGED <<state, timer_armed, faults>>
       ELSE /\ wifi_events' = wifi_events \cup {"SCAN_START"}
            /\ \E ok \in Oks(faults) :
                 /\ faults' = faults + OkCost(ok)
                 /\ IF ok
                    THEN /\ timer_armed' = TRUE
                         /\ state' = state
                         /\ Returned("start_scan", "ESP_OK")
                    ELSE /\ timer_armed' = timer_armed
                         /\ state' = "failed"
                         /\ Returned("start_scan", "ESP_FAIL")
    /\ UNCHANGED <<saved, current, new, elapsed, scan_ref, lock, task,
                   sm_vars, radio, nvs, scan_vars, hist_vars, conn,
                   requests>>

\* esp_wmngr_get_scan() by reader r, who holds no data set
esp_wmngr_get_scan(r) ==
    /\ held[r] = 0
    /\ IF scan_ref = 0 \/ lock # "free"
       THEN /\ Returned("get_scan", "NULL")
            /\ UNCHANGED <<lock, ref_cnt, held>>
       ELSE /\ lock' = "api"
            /\ ref_cnt' = kref_get(ref_cnt, scan_ref)
            /\ held' = [held EXCEPT ![r] = scan_ref]
            /\ Returned("get_scan", "data")
    /\ UNCHANGED <<cfg_vars, wifi_events, timer_armed, task, sm_vars, radio, nvs, freed, n_alloc, hist_vars, faults, conn, requests>>

\* esp_wmngr_put_scan() by reader r, of the data set it got
esp_wmngr_put_scan(r) ==
    /\ held[r] # 0
    /\ LET p == kref_put(ref_cnt, freed, held[r])
       IN  ref_cnt' = p.cnt /\ freed' = p.freed
    /\ held' = [held EXCEPT ![r] = 0]
    /\ Returned("put_scan", "void")
    /\ UNCHANGED <<cfg_vars, lock, wifi_events, timer_armed, task, sm_vars,
                   radio, nvs, n_alloc, hist_vars, faults, conn, requests>>

\* on_exit of a public call: xSemaphoreGive(cfg_state.lock)
ApiReturn ==
    /\ lock = "api"
    /\ lock' = "free"
    /\ call' = NoCall
    /\ UNCHANGED <<cfg_vars, wifi_events, timer_armed, task, sm_vars, radio, nvs, scan_vars, hist_vars, faults, conn, requests>>

(***************************************************************************)
(* The state esp_wmngr_init() leaves, and the inputs of the public calls.  *)
(***************************************************************************)
CfgAp ==
    [ZeroCfg EXCEPT !.mode = "AP", !.ap_ip_info = "10.0.0.1",
                    !.ap = [ssid |-> "my-ap", max_connection |-> 0]]
CfgSta ==
    [ZeroCfg EXCEPT !.mode = "STA", !.sta = "home", !.sta_connect = TRUE]
CfgApSta ==
    [ZeroCfg EXCEPT !.mode = "APSTA", !.sta = "office", !.sta_connect = TRUE,
                    !.ap = [ssid |-> "my-ap", max_connection |-> 0],
                    !.sta_static = TRUE, !.sta_ip_info = "10.1.0.2",
                    !.sta_dns_info = "10.1.0.1"]
CfgInputs == {CfgAp, CfgSta}

\* What an earlier run of the program can have left in the namespace:
\* nothing, or the config it was connected with.
InitStores ==
    {EmptyStore,
     save_config(EmptyStore,
                 [CfgApSta EXCEPT !.ap.max_connection = MAX_AP_CLIENTS],
                 NoNvsFault).store}

InitWith(isTask, stores) ==
    /\ task = isTask
    /\ nvs \in stores
    /\ state = "update"
    /\ saved = set_defaults
    /\ new = InitialNew(nvs, FALSE)
    /\ current = ZeroCfg
    /\ elapsed = 0
    /\ scan_ref = 0
    /\ lock = "free"
    /\ wifi_events = {}
    /\ timer_armed = TRUE
    /\ sm_pc = "wait"
    /\ sm_events = {}
    /\ delay = "none"
    /\ radio = RadioInit
    /\ ref_cnt = [i \in SnapIds |-> 0]
    /\ freed = [i \in SnapIds |-> 0]
    /\ n_alloc = 0
    /\ held = [r \in Readers |-> 0]
    /\ call = NoCall
    /\ origin = "init"
    /\ req_nvs = nvs
    /\ unseen = FALSE
    /\ fresh = FALSE
    /\ faults = 0
    /\ conn = NoConn
    /\ requests = 0

Init == InitWith(FALSE, InitStores)

(***************************************************************************)
(* Spec: the configuration state machine (timer variant) under every       *)
(* public call that changes the configuration, the radio events that       *)
(* report the connection, the tick counter, and failing calls.             *)
(***************************************************************************)
CfgEvents == {"STA_CONNECTED", "STA_DISCONNECTED"}

Next ==
    \/ SmStart
    \/ SmSave
    \/ SmExit
    \/ SmRearm
    \/ Tick
    \/ \E id \in CfgEvents : event_handler(id)
    \/ \E X \in CfgInputs : esp_wmngr_set_cfg(X)
    \/ esp_wmngr_connect
    \/ esp_wmngr_disconnect
    \/ SetConnectSet
    \/ esp_wmngr_start_wps
    \/ ApiReturn

Spec == Init /\ [][Next]_vars

(***************************************************************************)
(* SpecScan: scans and their readers, around the state machine as          *)
(* esp_wmngr_init() starts it.                                             *)
(***************************************************************************)
ScanEvents == {"SCAN_DONE_OK", "SCAN_DONE_FAILED", "STA_CONNECTED"}

NextScan ==
    \/ SmStart
    \/ SmSave
    \/ SmExit
    \/ SmRearm
    \/ \E id \in ScanEvents : event_handler(id)
    \/ esp_wmngr_start_scan
    \/ \E r \in Readers : esp_wmngr_get_scan(r)
    \/ \E r \in Readers : esp_wmngr_put_scan(r)
    \/ ApiReturn

SpecScan == Init /\ [][NextScan]_vars

(***************************************************************************)
(* SpecLive: the timer fires when it is armed, handle_wifi() gets the lock *)
(* if it is free again and again, a public call returns, and the tick      *)
(* counter advances.  Nothing is assumed of the callers and the radio.     *)
(***************************************************************************)
SmRun == SmStart /\ lock = "free"

NextLive ==
    \/ SmStart
    \/ SmSave
    \/ SmExit
    \/ SmRearm
    \/ Tick
    \/ \E id \in CfgEvents : event_handler(id)
    \/ esp_wmngr_set_cfg(CfgSta)
    \/ ApiReturn

SpecLive ==
    /\ Init
    /\ [][NextLive]_vars
    /\ WF_vars(SmStart)
    /\ SF_vars(SmRun)
    /\ WF_vars(SmSave)
    /\ WF_vars(SmExit)
    /\ WF_vars(SmRearm)
    /\ WF_vars(ApiReturn)
    /\ WF_vars(Tick)

(***************************************************************************)
(* SpecNvs: save_config() and get_saved_config() on their own.  It starts  *)
(* where handle_wifi() is about to call save_config(&cfg_state.new), for   *)
(* each config and each namespace, and goes on with the call (any of its   *)
(* NVS calls may fail), a power failure inside the call, a record that is  *)
(* damaged in the flash, and the next esp_wmngr_init().                    *)
(***************************************************************************)
\* The NVS calls of a save_config() in which none fails: nvs_erase_all,
\* nvs_commit, and one nvs_set_* per key.
SaveOps == 2 + Len(Keys)

\* A faulty variant of SavePrefix: the old record is not erased first.
SavePrefixNoErase(store, cfg, n) ==
    IF n <= 2 \/ cfg.is_default THEN store
    ELSE WriteFields(store, cfg, n - 2)

\* The namespace after the first n (>= 1) NVS calls of save_config(cfg).
SavePrefix(store, cfg, n) ==
    IF n <= 2 \/ cfg.is_default THEN EmptyStore
    ELSE WriteFields(EmptyStore, cfg, n - 2)

\* The configs save_config() is given.
SaveInputs ==
    {[CfgAp EXCEPT !.ap.max_connection = MAX_AP_CLIENTS], CfgSta,
     [CfgApSta EXCEPT !.ap.max_connection = MAX_AP_CLIENTS], set_defaults}

\* What esp_wmngr_init() leaves on the namespace store.
Reboot(store, open_fails) ==
    /\ nvs' = store
    /\ state' = "update"
    /\ saved' = set_defaults
    /\ new' = InitialNew(store, open_fails)
    /\ current' = ZeroCfg
    /\ elapsed' = 0
    /\ scan_ref' = 0
    /\ lock' = "free"
    /\ wifi_events' = {}
    /\ timer_armed' = TRUE
    /\ sm_pc' = "wait"
    /\ sm_events' = {}
    /\ delay' = "none"
    /\ radio' = RadioInit
    /\ ref_cnt' = [i \in SnapIds |-> 0]
    /\ freed' = [i \in SnapIds |-> 0]
    /\ n_alloc' = 0
    /\ held' = [r \in Readers |-> 0]
    /\ call' = NoCall
    /\ origin' = "init"
    /\ req_nvs' = store
    /\ unseen' = FALSE
    /\ fresh' = FALSE
    /\ conn' = NoConn
    /\ UNCHANGED <<task, faults, requests>>

\* The device is restarted: esp_wmngr_init() on the namespace as it is.
Restart(open_fails) ==
    /\ sm_pc # "save"
    /\ Reboot(nvs, open_fails)

\* The power fails after the n-th NVS call of save_config(); then as Restart.
PowerFailInSave(n, open_fails) ==
    /\ sm_pc = "save"
    /\ Reboot(SavePrefix(nvs, new, n), open_fails)

\* save_config(&cfg_state.new) returns; call is its result.
SaveStep ==
    /\ sm_pc = "save"
    /\ \E f \in NvsFaults :
         LET s == save_config(nvs, new, f)
         IN  /\ nvs' = s.store
             /\ call' = IF s.ok THEN "ESP_OK" ELSE "ESP_FAIL"
    /\ sm_pc' = "exit"
    /\ sm_events' = {}
    /\ UNCHANGED <<cfg_vars, lock, wifi_events, timer_armed, task, delay,
                   radio, scan_vars, hist_vars, faults, conn, requests>>

\* How a stored record can be damaged: the key is lost, or its length differs.
Damages == {"none", "other"}

\* A key of a valid record is damaged in the flash.
Tamper(k, d) ==
    /\ sm_pc # "save"
    /\ get_saved_config(nvs, FALSE).ok
    /\ nvs' = [nvs EXCEPT ![k].len = d]
    /\ call' = NoCall
    /\ UNCHANGED <<cfg_vars, lock, wifi_events, timer_armed, task, sm_vars,
                   radio, scan_vars, hist_vars, faults, conn, requests>>

InitNvs ==
    /\ task = FALSE
    /\ nvs \in InitStores
    /\ state = "connected"
    /\ saved = set_defaults
    /\ new \in SaveInputs
    /\ current = new
    /\ elapsed = 0
    /\ scan_ref = 0
    /\ lock = "sm"
    /\ wifi_events = {"STA_CONNECTED"}
    /\ timer_armed = FALSE
    /\ sm_pc = "save"
    /\ sm_events = {"STA_CONNECTED"}
    /\ delay = "none"
    /\ radio = RadioInit
    /\ ref_cnt = [i \in SnapIds |-> 0]
    /\ freed = [i \in SnapIds |-> 0]
    /\ n_alloc = 0
    /\ held = [r \in Readers |-> 0]
    /\ call = NoCall
    /\ origin = "set_cfg"
    /\ req_nvs = nvs
    /\ unseen = FALSE
    /\ fresh = FALSE
    /\ faults = 0
    /\ conn = NoConn
    /\ requests = 0

NextNvs ==
    \/ SaveStep
    \/ \E n \in 1 .. SaveOps : \E o \in BOOLEAN : PowerFailInSave(n, o)
    \/ \E k \in KeySet : \E d \in Damages : Tamper(k, d)
    \/ \E o \in BOOLEAN : Restart(o)

SpecNvs == InitNvs /\ [][NextNvs]_vars

(***************************************************************************)
(* SpecDefer: scan requests around a configuration that changes.  The      *)
(* radio reports the end of a scan only while one it was asked for is      *)
(* running (BIT_SCAN_RUNNING is set from esp_wifi_scan_start() returning   *)
(* ESP_OK until wifi_scan_done() has fetched the records); the station     *)
(* connects and loses its connection at any time.                          *)
(***************************************************************************)
ScanDoneEvents == {"SCAN_DONE_OK", "SCAN_DONE_FAILED"}

RadioScanDone(id) ==
    /\ "SCAN_RUNNING" \in wifi_events
    /\ event_handler(id)

NextDefer ==
    \/ SmStart
    \/ SmSave
    \/ SmExit
    \/ SmRearm
    \/ Tick
    \/ \E id \in CfgEvents : event_handler(id)
    \/ \E id \in ScanDoneEvents : RadioScanDone(id)
    \/ esp_wmngr_start_scan

SpecDefer == Init /\ [][NextDefer]_vars

(***************************************************************************)
(* SpecScanEnd: the scans the radio runs come to an end.  The radio        *)
(* reports the end of a scan, with either status, only while it runs one   *)
(* (radio.scans counts them; esp_wifi_scan_stop() in the update case ends  *)
(* them without an event); the timer fires when it is armed and            *)
(* handle_wifi() gets the lock, the tick counter advances, and the station *)
(* connects and loses its connection at any time.                          *)
(***************************************************************************)
RadioEndsScan(id) ==
    /\ radio.scans > 0
    /\ event_handler(id)

NextScanEnd ==
    \/ SmStart
    \/ SmSave
    \/ SmExit
    \/ SmRearm
    \/ Tick
    \/ \E id \in CfgEvents : event_handler(id)
    \/ \E id \in ScanDoneEvents : RadioEndsScan(id)
    \/ esp_wmngr_start_scan

SpecScanEnd ==
    /\ Init
    /\ [][NextScanEnd]_vars
    /\ WF_vars(SmStart)
    /\ SF_vars(SmRun)
    /\ WF_vars(SmSave)
    /\ WF_vars(SmExit)
    /\ WF_vars(SmRearm)
    /\ WF_vars(Tick)
    /\ WF_vars(\E id \in ScanDoneEvents : RadioEndsScan(id))

(***************************************************************************)
(* SpecBoot: esp_wmngr_init() over a store that holds no valid record (an  *)
(* empty one, or a complete record one key of which is missing or of the   *)
(* wrong length), and the state machine with the radio's connection        *)
(* events; no public call is made.                                         *)
(***************************************************************************)
StoredRecord ==
    save_config(EmptyStore,
                [CfgApSta EXCEPT !.ap.max_connection = MAX_AP_CLIENTS],
                NoNvsFault).store

BootStores ==
    {EmptyStore}
        \cup {[StoredRecord EXCEPT ![k].len = d] : k \in KeySet, d \in Damages}

InitBoot == InitWith(FALSE, BootStores)

NextBoot ==
    \/ SmStart
    \/ SmExit
    \/ SmRearm
    \/ Tick
    \/ \E id \in CfgEvents : event_handler(id)

SpecBoot == InitBoot /\ [][NextBoot]_vars

(***************************************************************************)
(* SpecWps: esp_wmngr_start_wps() and the state machine.  The radio        *)
(* reports the outcome of WPS only while WPS runs, that is from            *)
(* esp_wifi_wps_start() to esp_wifi_wps_disable(): while state is          *)
(* wps_active.  The station connects and loses its connection at any time. *)
(***************************************************************************)
WpsEvents == {"WPS_ER_SUCCESS", "WPS_ER_FAILED"}

RadioWps(id) ==
    /\ state = "wps_active"
    /\ event_handler(id)

NextWps ==
    \/ SmStart
    \/ SmSave
    \/ SmExit
    \/ SmRearm
    \/ Tick
    \/ \E id \in CfgEvents : event_handler(id)
    \/ \E id \in WpsEvents : RadioWps(id)
    \/ esp_wmngr_start_wps
    \/ ApiReturn

SpecWps == Init /\ [][NextWps]_vars

(***************************************************************************)
(* SpecVariants: both builds, handle_wifi() called by the timer and, with  *)
(* CONFIG_WMNGR_TASK, by esp_wmngr_task() on BIT_TRIGGER, under            *)
(* esp_wmngr_set_cfg(), the connection events and the tick counter.        *)
(***************************************************************************)
InitVariants == \E t \in BOOLEAN : InitWith(t, InitStores)

NextVariants ==
    \/ SmStart
    \/ SmSave
    \/ SmExit
    \/ SmRearm
    \/ esp_wmngr_task
    \/ handle_timer
    \/ Tick
    \/ \E id \in CfgEvents : event_handler(id)
    \/ \E X \in CfgInputs : esp_wmngr_set_cfg(X)
    \/ ApiReturn

SpecVariants == InitVariants /\ [][NextVariants]_vars

(***************************************************************************)
(* SpecWake: both variants of the build under the connection events and a  *)
(* caller of esp_wmngr_set_cfg(), with the fairness of SpecLive: an armed  *)
(* timer expires, the task runs when BIT_TRIGGER is set, handle_wifi()     *)
(* gets the lock if it is free again and again, a public call returns.     *)
(* The tick counter is left out: no wake-up depends on it.                 *)
(***************************************************************************)
\* The callers do not hold the lock every time the woken task asks for it.
TaskMeetsLock ==
    []<>(sm_pc = "clear") => []<>(sm_pc = "clear" /\ lock = "free")

NextWake ==
    \/ SmStart
    \/ SmSave
    \/ SmExit
    \/ SmRearm
    \/ esp_wmngr_task
    \/ handle_timer
    \/ \E id \in CfgEvents : event_handler(id)
    \/ esp_wmngr_set_cfg(CfgSta)
    \/ ApiReturn

SpecWake ==
    /\ InitVariants
    /\ [][NextWake]_vars
    /\ WF_vars(SmStart)
    /\ SF_vars(SmRun)
    /\ WF_vars(SmSave)
    /\ WF_vars(SmExit)
    /\ WF_vars(SmRearm)
    /\ WF_vars(esp_wmngr_task)
    /\ TaskMeetsLock
    /\ WF_vars(handle_timer)
    /\ WF_vars(ApiReturn)

(***************************************************************************)
(* SpecSetCfg: esp_wmngr_set_cfg() over what the radio can hold when the   *)
(* call comes: the device has started from a stored config of any mode,    *)
(* connected or not, and the config asked for is equal to the stored one,  *)
(* or differs from it in one section.                                      *)
(***************************************************************************)
SetCfgInputs ==
    LET ap == [CfgAp EXCEPT !.ap.max_connection = MAX_AP_CLIENTS]
        apsta == [CfgApSta EXCEPT !.ap.max_connection = MAX_AP_CLIENTS]
    IN  {ap, [ap EXCEPT !.ap.ssid = "other-ap"], [ap EXCEPT !.sta = "home"],
         CfgSta, [CfgSta EXCEPT !.sta = "office"],
         [CfgSta EXCEPT !.ap = ap.ap],
         apsta, [apsta EXCEPT !.sta = "home"],
         [apsta EXCEPT !.ap.ssid = "other-ap"]}

SetCfgStores ==
    {EmptyStore} \cup
    {save_config(EmptyStore, c, NoNvsFault).store :
        c \in {[CfgAp EXCEPT !.ap.max_connection = MAX_AP_CLIENTS], CfgSta,
               [CfgApSta EXCEPT !.ap.max_connection = MAX_AP_CLIENTS]}}

InitSetCfg == InitWith(FALSE, SetCfgStores)

NextSetCfg ==
    \/ SmStart
    \/ SmSave
    \/ SmExit
    \/ SmRearm
    \/ \E id \in CfgEvents : event_handler(id)
    \/ \E X \in SetCfgInputs : esp_wmngr_set_cfg(X)
    \/ ApiReturn

SpecSetCfg == InitSetCfg /\ [][NextSetCfg]_vars

(***************************************************************************)
(* The vocabulary of the properties.                                       *)
(***************************************************************************)
Transitional == {"update", "wps_start", "wps_active", "connecting",
                 "disconnecting", "fallback"}
Stable == {"failed", "connected", "idle"}

\* This step is a public call that changes the configuration.
ConfigCall ==
    \/ \E X \in CfgInputs : esp_wmngr_set_cfg(X)
    \/ esp_wmngr_connect
    \/ esp_wmngr_disconnect
    \/ SetConnectSet
    \/ esp_wmngr_start_wps

\* The transition in progress was asked for by set_cfg, connect or disconnect.
RequestOps == {"set_cfg", "connect", "disconnect"}

\* a and b are the same but for the ap.max_connection that set_wifi_cfg forces.
SameConfig(a, b) ==
    [a EXCEPT !.ap.max_connection = MAX_AP_CLIENTS]
        = [b EXCEPT !.ap.max_connection = MAX_AP_CLIENTS]

\* The references to data set id: cfg_state.scan_ref and the readers' pointers.
Refs(id) ==
    (IF scan_ref = id THEN 1 ELSE 0)
    + Cardinality({r \in Readers : held[r] = id})

(***************************************************************************)
(* C1, as stated: in a transitional state, every public call that changes  *)
(* the configuration returns ESP_ERR_INVALID_STATE and leaves state,       *)
(* saved, new and current as they are.                                     *)
(***************************************************************************)
C1_BusyRejectsInvalidState ==
    [][(ConfigCall /\ state \in Transitional)
        => /\ call' = "ESP_ERR_INVALID_STATE"
           /\ UNCHANGED <<state, saved, new, current>>]_vars

(***************************************************************************)
(* C1, amended: in a transitional state, every public call that changes    *)
(* the configuration leaves state, saved, new and current as they are; it  *)
(* returns ESP_ERR_INVALID_STATE if it gets the lock and ESP_ERR_TIMEOUT   *)
(* if the lock is held for the CFG_DELAY the call waits for it.            *)
(***************************************************************************)
C1_BusyRejects ==
    [][(ConfigCall /\ state \in Transitional)
        => /\ call' = IF lock = "free" THEN "ESP_ERR_INVALID_STATE"
                      ELSE "ESP_ERR_TIMEOUT"
           /\ UNCHANGED <<state, saved, new, current>>]_vars

\* A request is in progress and a further call has just been turned down.
C1_Witness ==
    /\ state \in Transitional
    /\ requests = 1
    /\ call = "ESP_ERR_INVALID_STATE"

(***************************************************************************)
(* C2: a request of set_cfg, connect or disconnect that has timed out in   *)
(* connecting and is in fallback, the sta_connected flag not set, reaches  *)
(* failed with current equal to saved.                                     *)
(***************************************************************************)
C2_FallbackRestoresSaved ==
    [][(/\ origin \in RequestOps
        /\ ~sta_connected(wifi_events) /\ ~sta_connected(wifi_events')
        /\ state = "fallback" /\ state' = "failed")
        => SameConfig(current', saved')]_vars

\* The request has timed out and failed, and current is saved.
C2_Witness ==
    /\ origin = "set_cfg"
    /\ state = "failed"
    /\ faults = 0
    /\ new.sta_connect
    /\ ~sta_connected(wifi_events)
    /\ current = saved

(***************************************************************************)
(* C3: while a request of set_cfg, connect or disconnect is in fallback,   *)
(* and when it goes from there to failed, the namespace is what it was     *)
(* when the request was made.                                              *)
(***************************************************************************)
C3_StoreKeptOnFailure ==
    [][(origin \in RequestOps /\ state = "fallback")
        => /\ nvs = req_nvs
           /\ state' = "failed" => nvs' = req_nvs]_vars

\* A set_cfg made over a stored config has failed through fallback.
C3_Witness ==
    /\ origin = "set_cfg"
    /\ state = "failed"
    /\ faults = 0
    /\ nvs # EmptyStore
    /\ nvs = req_nvs
    /\ get_saved_config(nvs, FALSE).cfg # new

(***************************************************************************)
(* C4: when a request of set_cfg, connect or disconnect has reached        *)
(* connected or idle and handle_wifi() has returned, a restart on the      *)
(* namespace loads the requested config as the initial new (stated for the *)
(* runs in which no call has failed).                                      *)
(***************************************************************************)
C4_PersistedOnSuccess ==
    (/\ faults = 0
     /\ origin \in RequestOps
     /\ state \in {"connected", "idle"}
     /\ sm_pc = "wait")
        => InitialNew(nvs, FALSE) = new

\* There is a request whose config has been persisted: the claim's premise.
C4_Witness ==
    /\ origin = "set_cfg"
    /\ state = "connected"
    /\ sm_pc = "wait"
    /\ InitialNew(nvs, FALSE) = new

(***************************************************************************)
(* C5: whenever state is connected for a request of set_cfg, connect or    *)
(* disconnect, the namespace reads back as the requested config (stated    *)
(* for the runs in which no call has failed).                              *)
(***************************************************************************)
C5_PersistedBeforeConnected ==
    (faults = 0 /\ origin \in RequestOps /\ state = "connected")
        => get_saved_config(nvs, FALSE) = [cfg |-> new, ok |-> TRUE]

\* state is connected and save_config() has not been called yet.
C5_Witness ==
    /\ origin = "set_cfg"
    /\ state = "connected"
    /\ sm_pc = "save"
    /\ lock = "sm"

(***************************************************************************)
(* C7, as stated: state goes from a stable to a transitional value only in *)
(* a public call that changes the configuration.                           *)
(***************************************************************************)
C7_LeavesStableOnlyByRequest ==
    [][(state \in Stable /\ state' \in Transitional) => ConfigCall]_vars

(***************************************************************************)
(* C7, amended: state goes from a stable to a transitional value only in a *)
(* public call that changes the configuration, or when handle_wifi() finds *)
(* the sta_connected flag cleared in connected and goes back to update.    *)
(***************************************************************************)
C7_LeavesStableByRequestOrRetry ==
    [][(state \in Stable /\ state' \in Transitional)
        => \/ ConfigCall
           \/ /\ SmStart
              /\ state = "connected"
              /\ ~sta_connected(wifi_events)
              /\ state' = "update"]_vars

\* handle_wifi() has left connected on its own.
C7_Witness ==
    /\ state = "update"
    /\ origin = "retry"
    /\ lock = "sm"

(***************************************************************************)
(* C8: whenever state is failed, current equals saved.                     *)
(***************************************************************************)
C8_FailedRunsSaved == state = "failed" => SameConfig(current, saved)

\* state is failed and current is not the config that was saved.
C8_Witness ==
    /\ state = "failed"
    /\ ~SameConfig(current, saved)
    /\ current = [new EXCEPT !.ap.max_connection = current.ap.max_connection]

(***************************************************************************)
(* C6: under SpecLive, whenever state is transitional it is stable again   *)
(* later.                                                                  *)
(***************************************************************************)
C6_EventuallyStable == [](state \in Transitional => <>(state \in Stable))

\* A transitional state from which handle_wifi() is to take the machine on.
C6_Witness ==
    /\ state = "connecting"
    /\ timer_armed
    /\ sm_pc = "wait"
    /\ TimedOut(elapsed)

(***************************************************************************)
(* C9: the data set a reader got from esp_wmngr_get_scan() and has not put *)
(* back has not been freed.                                                *)
(***************************************************************************)
C9_HeldNotFreed == \A r \in Readers : held[r] # 0 => freed[held[r]] = 0

\* A reader holds a data set that a newer one has replaced as scan_ref.
C9_Witness ==
    \E r \in Readers :
        /\ held[r] # 0
        /\ scan_ref # 0
        /\ held[r] # scan_ref
        /\ freed[held[r]] = 0

(***************************************************************************)
(* C10: a data set that was allocated has been freed once if no reference  *)
(* to it is left (scan_ref or a reader's), and not at all if one is.       *)
(***************************************************************************)
C10_FreedOnceAtLastPut ==
    \A id \in 1 .. n_alloc : freed[id] = IF Refs(id) = 0 THEN 1 ELSE 0

\* A replaced data set was freed by the put of its last reader only.
C10_Witness ==
    /\ n_alloc = 2
    /\ scan_ref = 2
    /\ freed[1] = 1
    /\ call = "void"

(***************************************************************************)
(* C11: in every reachable state, whoever holds cfg_state.lock, the        *)
(* handler can run for every event, and no run of it changes the lock.     *)
(***************************************************************************)
C11_EventHandlerLockFree ==
    \A id \in EventIds :
        /\ ENABLED event_handler(id)
        /\ ~ENABLED (event_handler(id) /\ lock' # lock)

\* An event was handled while handle_wifi() held the lock, before save_config.
C11_Witness ==
    /\ lock = "sm"
    /\ sm_pc = "save"
    /\ sta_connected(sm_events)
    /\ ~sta_connected(wifi_events)

(***************************************************************************)
(* C12: when save_config(X) has returned ESP_OK, get_saved_config() on the *)
(* namespace succeeds and returns X in every field if X.is_default is      *)
(* false, and the namespace is empty and get_saved_config() fails if it is *)
(* true.                                                                   *)
(***************************************************************************)
C12_SaveLoadRoundTrip ==
    (sm_pc = "exit" /\ call = "ESP_OK")
        => IF new.is_default
           THEN nvs = EmptyStore /\ ~get_saved_config(nvs, FALSE).ok
           ELSE get_saved_config(nvs, FALSE) = [cfg |-> new, ok |-> TRUE]

\* save_config() has replaced an older record by an AP-only config.
C12_Witness ==
    /\ sm_pc = "exit"
    /\ call = "ESP_OK"
    /\ new.mode = "AP"
    /\ req_nvs # EmptyStore
    /\ nvs # req_nvs

C14_CrashNeverMixes ==
    [][(\E n \in 1 .. SaveOps : PowerFailInSave(n, FALSE))
        => LET l == get_saved_config(nvs', FALSE)
           IN  /\ l.ok => l.cfg = new
               /\ new' = IF l.ok THEN new ELSE set_defaults]_vars

\* The power failed between two nvs_set_* calls; init has set the defaults.
C14_Witness ==
    /\ sm_pc = "wait"
    /\ origin = "init"
    /\ nvs["mode"].len = "u32"
    /\ nvs["sta"].len = "none"
    /\ nvs["sta_dns"].len = "none"
    /\ new = set_defaults

(***************************************************************************)
(* C15: when esp_wmngr_init() runs on a namespace in which one of the      *)
(* eight keys is missing or has another length than its field,             *)
(* get_saved_config() fails, new is the compiled defaults and state is     *)
(* update.                                                                 *)
(***************************************************************************)
C15_DamagedRecordGivesDefaults ==
    [][(Restart(FALSE) /\ \E k \in KeySet : nvs[k].len # SizeOf(k))
        => /\ ~get_saved_config(nvs, FALSE).ok
           /\ new' = set_defaults
           /\ state' = "update"]_vars

\* init has run on a record whose "sta" blob has another length.
C15_Witness ==
    /\ origin = "init"
    /\ sm_pc = "wait"
    /\ state = "update"
    /\ nvs["sta"].len = "other"
    /\ nvs["sta_dns"].len = SizeOf("sta_dns")
    /\ new = set_defaults

C17_DisconnectTriggersUpdate ==
    [][(/\ SetConnectSet
        /\ conn.op = "disconnect"
        /\ lock = "free"
        /\ ~Busy(state)
        /\ StaBearing(current.mode)
        /\ sta_connected(wifi_events)
        /\ faults = 0
        /\ faults' = 0)
        => state' = "update"]_vars

\* disconnect() has returned ESP_OK to an associated station still connected.
C17_Witness ==
    /\ state = "connected"
    /\ sta_connected(wifi_events)
    /\ call = "ESP_OK"
    /\ ~new.sta_connect
    /\ current.sta_connect

(***************************************************************************)
(* C18: a start_scan() made in a transitional state whose timer call       *)
(* succeeds returns ESP_OK, sets SCAN_START and arms the timer without     *)
(* touching state; while no scan is running or uncollected, SCAN_START is  *)
(* not cleared by any step that ends in a transitional state; and the      *)
(* handle_wifi() run that sampled SCAN_START and leaves the transitional   *)
(* state for a stable one (radio mode STA or APSTA, no scan running or     *)
(* uncollected, no call failing) has the scan started: SCAN_RUNNING is set.*)
(***************************************************************************)
ScanIdle(events) == events \cap {"SCAN_RUNNING", "SCAN_DONE"} = {}

C19_DefaultsAppliedStoreUntouched ==
    [][(faults' = 0 /\ ~get_saved_config(req_nvs, FALSE).ok)
         => /\ nvs' = req_nvs
            /\ state' \in {"update", "idle"}
            /\ (SmStart /\ lock' = "sm" /\ state = "update")
                 => /\ state' = "idle"
                    /\ current' = set_defaults
                    /\ current'.is_default
                    /\ current'.mode = "APSTA"
                    /\ ~current'.sta_connect]_vars

\* Idle on the defaults over the empty store, handle_wifi() having returned.
C19_Witness ==
    /\ state = "idle"
    /\ origin = "init"
    /\ sm_pc = "wait"
    /\ lock = "free"
    /\ current = set_defaults
    /\ nvs = EmptyStore
    /\ req_nvs = EmptyStore
    /\ faults = 0

(***************************************************************************)
(* C20: after an accepted start_wps(), while no call fails, each run of    *)
(* handle_wifi() that gets the lock takes the next step of the path:       *)
(* wps_start to wps_active; wps_active with WPS_SUCCESS flagged to update, *)
(* new holding the station record of the radio, mode APSTA and sta_connect *)
(* true; update to connecting, current being new; connecting with          *)
(* STA_CONNECTED flagged to connected, and the save_config() of that run   *)
(* leaves a record that loads as new.  From connecting on, new and current *)
(* hold the credentials of WPS, mode APSTA and sta_connect true.           *)
(***************************************************************************)
WpsConfig(cfg) ==
    /\ cfg.sta = WpsSta
    /\ cfg.mode = "APSTA"
    /\ cfg.sta_connect

C22_ErrorsSurfaced ==
    [][/\ ((\E X \in CfgInputs : esp_wmngr_set_cfg(X)) /\ call' = "ESP_OK")
            => \/ state' = "update" /\ timer_armed'
               \/ state' = state /\ timer_armed' = timer_armed
                    /\ faults' = faults
       /\ (esp_wmngr_start_wps /\ call' = "ESP_OK")
            => state' = "wps_start" /\ timer_armed'
      ]_vars

\* start_wps() has returned ESP_OK, the timer call having failed; new is
\* still the defaults of esp_wmngr_init(), which no set_cfg() leaves.
C22_Witness ==
    /\ call = "ESP_OK"
    /\ lock = "api"
    /\ state = "failed"
    /\ origin = "init"
    /\ requests = 1
    /\ faults = 1
    /\ saved = get_wifi_cfg(radio, wifi_events, "none").cfg
    /\ new.is_default
    /\ conn = NoConn

(***************************************************************************)
(* C23: handle_wifi() is inside its body exactly while it holds the lock,  *)
(* so never while a public call holds it; saved, current, new and scan_ref *)
(* change only in a step that takes the lock or is made by its holder; and *)
(* a run of handle_wifi() that finds the lock held changes no field of     *)
(* cfg_state, does not enter the body, and asks for the timer again: the   *)
(* timer is armed after it unless that call fails.                         *)
(***************************************************************************)
InBody(pc) == pc \in {"save", "exit"}

C24_StateWrittenUnderLock ==
    [][state' # state
         => \/ lock = "free" /\ lock' # "free"
            \/ lock = "sm" /\ InBody(sm_pc)]_vars

\* state has been set to failed while esp_wmngr_set_cfg(), which had set it
\* to update, still held the lock.
C24_Witness ==
    /\ lock = "api"
    /\ state = "failed"
    /\ origin = "set_cfg"
    /\ requests = MaxRequests
    /\ sm_pc = "wait"

(***************************************************************************)
(* C25: state is never disconnecting: it is always one of failed,          *)
(* connected, idle, update, wps_start, wps_active, connecting, fallback.   *)
(***************************************************************************)
C25_DisconnectingNeverEntered ==
    state \in {"failed", "connected", "idle", "update", "wps_start",
               "wps_active", "connecting", "fallback"}

\* disconnect() has been served: the machine is idle, the station not
\* associated.
C25_Witness ==
    /\ origin = "disconnect"
    /\ state = "idle"
    /\ ~sta_connected(wifi_events)
    /\ ~new.sta_connect
    /\ sm_pc = "wait"

(***************************************************************************)
(* C26: a run of handle_wifi() that finds state update and in which a call *)
(* fails does not leave state idle or connecting.                          *)
(***************************************************************************)
C26_ApplyFailureFallsBack ==
    [][(SmStart /\ lock' = "sm" /\ state = "update" /\ faults' > faults)
         => state' \notin {"idle", "connecting"}]_vars

\* The update case has gone on although esp_wifi_set_mode() failed: the
\* radio is not in the mode of current.
C26_Witness ==
    /\ sm_pc = "exit"
    /\ state \in {"idle", "connecting"}
    /\ origin = "init"
    /\ faults = 1
    /\ radio.mode # current.mode
    /\ current = [new EXCEPT !.ap.max_connection = current.ap.max_connection]

(***************************************************************************)
(* C27: whenever state goes from a stable state to update or wps_start,    *)
(* saved is, after that step, the configuration read from the radio in     *)
(* that step (its station record cleared by esp_wmngr_set_cfg() when the   *)
(* station is not associated).                                             *)
(***************************************************************************)
Captured ==
    LET g == get_wifi_cfg(radio, wifi_events, "none").cfg
    IN  {g, [g EXCEPT !.sta = ""]}

C27_SavedCapturedAlways ==
    [][(state \in Stable /\ state' \in {"update", "wps_start"})
         => saved' \in Captured]_vars

(***************************************************************************)
(* C27, amended: a public call that takes state from a stable state to     *)
(* update or wps_start leaves in saved the configuration it read from the  *)
(* radio; the only other way from a stable state to update is the retry of *)
(* handle_wifi() in state connected when the connection is lost, which     *)
(* keeps saved; saved is kept while state is transitional and not          *)
(* fallback; and the run that finds state fallback, no call failing,       *)
(* copies saved to current.                                                *)
(***************************************************************************)
C27_SavedCapturedByCalls ==
    [][/\ (state \in Stable /\ state' \in {"update", "wps_start"})
            => IF lock = "free" /\ lock' = "api"
               THEN saved' \in Captured
               ELSE /\ state = "connected"
                    /\ ~sta_connected(wifi_events)
                    /\ state' = "update"
                    /\ origin' = "retry"
                    /\ saved' = saved
       /\ (state \in Transitional /\ state # "fallback") => saved' = saved
       /\ (SmStart /\ lock' = "sm" /\ state = "fallback" /\ faults' = faults)
            => current' = saved
      ]_vars

\* A request of set_cfg() has failed and the configuration it captured is
\* in force again.
C27_Witness ==
    /\ origin = "set_cfg"
    /\ state = "failed"
    /\ sm_pc = "wait"
    /\ faults = 0
    /\ SameConfig(current, saved)
    /\ ~SameConfig(current, new)
    /\ radio.mode = saved.mode
    /\ saved.mode = "APSTA"

(***************************************************************************)
(* C28: the radio accepts a scan only in a step of the holder of the lock  *)
(* that ends in a stable state, with the radio in mode STA or APSTA, and   *)
(* that found neither SCAN_RUNNING nor SCAN_DONE set; the radio never runs *)
(* more than one scan, and while it runs one SCAN_RUNNING is set.          *)
(***************************************************************************)
C28_ScanOnlyWhenStableAndIdle ==
    [][/\ radio'.scans > radio.scans
            => /\ lock' = "sm"
               /\ ~Busy(state')
               /\ StaBearing(radio'.mode)
               /\ ScanIdle(wifi_events)
               /\ "SCAN_RUNNING" \in wifi_events'
       /\ radio'.scans <= 1
       /\ radio'.scans = 1 => "SCAN_RUNNING" \in wifi_events'
      ]_vars

\* The records of a first scan have been collected and a second scan runs.
C28_Witness ==
    /\ radio.scans = 1
    /\ "SCAN_RUNNING" \in wifi_events
    /\ "SCAN_START" \notin wifi_events
    /\ state = "connected"
    /\ sm_pc = "wait"
    /\ lock = "free"
    /\ n_alloc = 1

(***************************************************************************)
(* C29: after a run of handle_wifi() that sampled SCAN_START and called    *)
(* wifi_scan_start() in a stable state, SCAN_START is clear.               *)
(***************************************************************************)
ScanStartRan ==
    \/ /\ SmStart
       /\ lock' = "sm"
       /\ sm_pc' = "exit"
       /\ "SCAN_START" \in wifi_events
       /\ ~Busy(state')
       /\ faults' = faults \/ state' # "failed"
    \/ /\ SmSave
       /\ "SCAN_START" \in sm_events

C30_RefCountInvariant ==
    /\ \A id \in 1 .. n_alloc : freed[id] = 0 => ref_cnt[id] = Refs(id)
    /\ scan_ref # 0 => freed[scan_ref] = 0 /\ ref_cnt[scan_ref] >= 1
    /\ \A id \in SnapIds : ref_cnt[id] >= 0

\* One reader holds the current data set, the other one the data set it
\* replaced.
C30_Witness ==
    /\ scan_ref # 0
    /\ ref_cnt[scan_ref] = 2
    /\ \E r \in Readers :
         /\ held[r] # 0
         /\ held[r] # scan_ref
         /\ ref_cnt[held[r]] = 1
         /\ freed[held[r]] = 0

(***************************************************************************)
(* C31: whenever event_handler() has changed the event group, a run of     *)
(* handle_wifi() that takes the lock, and reads the event group, follows,  *)
(* with the timer and with the task.                                       *)
(***************************************************************************)
C31_NoLostWakeup == unseen ~> ~unseen

\* With the timer: the event group has changed, handle_wifi() has found
\* the lock held and has not armed the timer again; the state is as it was.
C31_Witness ==
    /\ ~task
    /\ unseen
    /\ ~timer_armed
    /\ sm_pc = "wait"
    /\ state \in Transitional
    /\ faults = 1

(***************************************************************************)
(* C32: the part of handle_wifi() that holds the lock leaves a delay other *)
(* than 0 when it leaves state update, wps_start, wps_active, connecting   *)
(* or fallback; it leaves delay 0 only with a stable state and with        *)
(* neither BIT_SCAN_START nor BIT_SCAN_DONE set; and after the lock is     *)
(* given back the timer is asked for exactly when delay is not 0.          *)
(***************************************************************************)
C32_TransitionalRearms ==
    [][/\ ((SmStart \/ SmSave) /\ sm_pc' = "exit")
            => /\ state' \in Transitional => delay' # "none"
               /\ delay' = "none"
                    => /\ state' \in Stable
                       /\ wifi_events' \cap {"SCAN_START", "SCAN_DONE"} = {}
       /\ SmExit => (sm_pc' = "rearm" <=> delay # "none")
       /\ SmRearm => timer_armed' \/ (faults' > faults /\ state' = "failed")
      ]_vars

\* handle_wifi() could not read the mode: it is about to give the lock back
\* with delay 0 while a scan request is waiting and the timer is not armed.
C32_Witness ==
    /\ sm_pc = "exit"
    /\ lock = "sm"
    /\ delay = "none"
    /\ state = "failed"
    /\ "SCAN_START" \in wifi_events
    /\ ~timer_armed
    /\ faults = 1
    /\ current = ZeroCfg

(***************************************************************************)
(* C33: when handle_wifi() in state connecting finds BIT_STA_CONNECTED set *)
(* and goes to connected, a WIFI_EVENT_STA_CONNECTED has been handled      *)
(* since the update case gave new to the driver; the bit is not the one    *)
(* that was set before.                                                    *)
(***************************************************************************)
C33_ConnectedByFreshAssociation ==
    [][(SmStart /\ state = "connecting" /\ state' = "connected") => fresh]_vars

\* A config asked for by esp_wmngr_set_cfg() is about to be saved as
\* connected, on a bit that no event has touched since it was applied.
C33_Witness ==
    /\ state = "connected"
    /\ sm_pc = "save"
    /\ origin = "set_cfg"
    /\ "STA_CONNECTED" \in wifi_events
    /\ ~fresh
    /\ nvs = req_nvs
    /\ faults = 0

(***************************************************************************)
(* C34: a call of esp_wmngr_set_cfg() or esp_wmngr_start_wps() that        *)
(* returns the error of get_wifi_cfg() leaves saved, new, current and      *)
(* state as they were.                                                     *)
(***************************************************************************)
C34_FailedReadKeepsConfig ==
    [][(/\ (\E X \in CfgInputs : esp_wmngr_set_cfg(X)) \/ esp_wmngr_start_wps
        /\ call' = "ESP_FAIL")
         => UNCHANGED <<saved, new, current, state>>]_vars

\* esp_wmngr_set_cfg() has returned the error of get_wifi_cfg(), in state
\* connected; saved is what get_wifi_cfg() left of it, without the AP part.
C34_Witness ==
    /\ call = "ESP_FAIL"
    /\ lock = "api"
    /\ state = "connected"
    /\ faults = 1
    /\ saved.ap = ZeroAp
    /\ saved # current
    /\ current.ap # ZeroAp

(***************************************************************************)
(* C35: esp_wmngr_set_cfg(X) that finds the lock free and a stable state   *)
(* and returns ESP_OK has stored in saved what the radio holds, the STA    *)
(* section cleared if BIT_STA_CONNECTED is not set, and in new X with      *)
(* is_default false; it has set state update and armed the timer if X      *)
(* differs from saved in the mode, in the AP section with X.mode AP or     *)
(* APSTA, or in the STA section with X.mode STA or APSTA, and has left     *)
(* state and timer as they were if not.                                    *)
(***************************************************************************)
C35_UpdateIffDifferent ==
    [][\A X \in SetCfgInputs :
         (esp_wmngr_set_cfg(X) /\ Accepted /\ call' = "ESP_OK")
           => LET held_by_radio == get_wifi_cfg(radio, wifi_events, "none").cfg
                  differs == \/ X.mode # saved'.mode
                             \/ X.mode \in {"AP", "APSTA"} /\ X.ap # saved'.ap
                             \/ X.mode \in {"STA", "APSTA"}
                                  /\ X.sta # saved'.sta
              IN  /\ saved' = IF "STA_CONNECTED" \in wifi_events
                              THEN held_by_radio
                              ELSE [held_by_radio EXCEPT !.sta = ""]
                  /\ new' = [X EXCEPT !.is_default = FALSE]
                  /\ differs => state' = "update" /\ timer_armed'
                  /\ ~differs => /\ state' = state
                                 /\ timer_armed' = timer_armed
      ]_vars

\* A config of mode AP whose STA section is not the radio's was taken
\* without an update.
C35_Witness ==
    /\ call = "ESP_OK"
    /\ lock = "api"
    /\ state = "idle"
    /\ origin = "init"
    /\ requests = 1
    /\ new.mode = "AP"
    /\ new.mode = saved.mode
    /\ new.ap = saved.ap
    /\ new.sta # saved.sta
    /\ ~timer_armed

(***************************************************************************)
(* C36: with d ticks gone since cfg_timestamp, d below half the range of   *)
(* the counter, time_after(now, cfg_timestamp + CFG_TIMEOUT) is true       *)
(* exactly when d > CFG_TIMEOUT, whatever cfg_timestamp is, the sums taken *)
(* in the width of the counter; and the run of handle_wifi() that finds    *)
(* state connecting without BIT_STA_CONNECTED, or wps_active without a WPS *)
(* bit, leaves state fallback exactly when d > CFG_TIMEOUT.                *)
(***************************************************************************)
C36_DeadlineUnderWraparound ==
    [][/\ elapsed' < TickMod \div 2
            => \A ts \in 0 .. TickMod - 1 :
                 time_after((ts + elapsed') % TickMod,
                            (ts + CFG_TIMEOUT) % TickMod)
                   <=> elapsed' > CFG_TIMEOUT
       /\ (/\ SmStart /\ lock' = "sm" /\ faults' = faults
           /\ elapsed < TickMod \div 2
           /\ \/ state = "connecting" /\ "STA_CONNECTED" \notin wifi_events
              \/ state = "wps_active" /\ wifi_events \cap BITS_WPS = {})
            => (state' = "fallback" <=> elapsed > CFG_TIMEOUT)
      ]_vars

\* WPS has run into its deadline one tick after CFG_TIMEOUT.
C36_Witness ==
    /\ state = "fallback"
    /\ sm_pc = "exit"
    /\ origin = "start_wps"
    /\ elapsed = CFG_TIMEOUT + 1
    /\ elapsed < TickMod \div 2
    /\ wifi_events \cap BITS_WPS = {}
    /\ faults = 0


(***************************************************************************)
(* C37: in every state with state = connected, taken between the runs of   *)
(* handle_wifi() and in the runs in which no call has failed, new equals   *)
(* current and the namespace reads back as new: the config the connected   *)
(* case re-applies after a lost connection is the one that was connected   *)
(* and persisted, whatever esp_wmngr_set_cfg() accepted without an update. *)
(***************************************************************************)
C37_RetryAppliesConnectedConfig ==
    (faults = 0 /\ state = "connected" /\ lock # "sm")
        => /\ new = current
           /\ get_saved_config(nvs, FALSE) = [cfg |-> new, ok |-> TRUE]

\* esp_wmngr_set_cfg() has returned ESP_OK in state connected without an
\* update, and new is no longer the config the radio runs and the namespace
\* holds.
C37_Witness ==
    /\ faults = 0
    /\ state = "connected"
    /\ lock = "api"
    /\ call = "ESP_OK"
    /\ requests = 1
    /\ ~timer_armed
    /\ new # current
    /\ get_saved_config(nvs, FALSE) = [cfg |-> current, ok |-> TRUE]



(***************************************************************************)
(* C38: a scan that has ended does not block scanning for good: whenever   *)
(* BIT_SCAN_RUNNING is set and the radio runs no scan any more (the scan   *)
(* was reported done with either status, or stopped by the update case),   *)
(* BIT_SCAN_RUNNING is eventually cleared.                                 *)
(***************************************************************************)
C38_EndedScanUnblocks ==
    ("SCAN_RUNNING" \in wifi_events /\ radio.scans = 0)
        ~> ("SCAN_RUNNING" \notin wifi_events)

\* A scan has ended without BIT_SCAN_DONE (reported with a failing status, or
\* stopped by the update case) and handle_wifi() has run since:
\* BIT_SCAN_RUNNING is set, nothing is pending and the timer is not armed.
C38_Witness ==
    /\ "SCAN_RUNNING" \in wifi_events
    /\ wifi_events \cap {"SCAN_START", "SCAN_DONE"} = {}
    /\ radio.scans = 0
    /\ state \in Stable
    /\ StaBearing(radio.mode)
    /\ sm_pc = "wait"
    /\ lock = "free"
    /\ ~timer_armed
    /\ ~unseen
    /\ faults = 0


====
